---- MODULE Spec2Model ----
(***************************************************************************)
(* Verification model of the agro-climate ETL / model-serving repository.  *)
(*                                                                         *)
(* The repository is a set of independent batch programs; each is modelled *)
(* as its own state machine over its own variables, with its own           *)
(* specification:                                                          *)
(*   SpecWeather  etl/transform_weather.py   clean_weather_data            *)
(*   SpecGee      etl/transform_gee_data.py  transform_gee_data            *)
(*   SpecFeat     models/streamlit_app.py    prepare_features_for_model    *)
(*   SpecRain     the three rainfall categorisations                       *)
(*   SpecLoad     etl/load_*.py              the scheduled loaders         *)
(*   SpecUnified  script/load_to_postgres.py the unified loader            *)
(*   SpecDag      dags/etl.pipeline_dag.py   the daily DAG                 *)
(*   SpecExtractWeather  etl/extract_weather.py  the weather task          *)
(*   SpecExtractGee  etl/extract_gee_data.py  the satellite task           *)
(*   SpecFao  etl/transform_fao.py  clean_fao_data                         *)
(*   SpecTrain  models/base_model.py  BaseModel.train                      *)
(*   SpecPersist  models/base_model.py  save / load_model                  *)
(*   SpecTrainAll  models/train_all_models.py  the training script         *)
(*   SpecRainTrain  models/rainfall_prediction.py  the training table      *)
(*   SpecPipeline  copernicus_data/main_gee_pipeline.py  main              *)
(*   SpecAuto  models/real_time_data.py  AutomaticPredictor                *)
(*   SpecDash  models/streamlit_app.py  load_models, config_page           *)
(*   SpecLifecycle  models/base_model.py  a BaseModel object               *)
(*   SpecSeason  season labels from the transform to the models            *)
(*   SpecCrop  models/irrigation_optimization.py  calculate_crop_et        *)
(* A specification leaves the variables of the other programs idle.        *)
(*                                                                         *)
(* Data frames are sequences of records.  A cell of a column that pandas   *)
(* reads as a number, a missing value or an unparsable string is a record  *)
(* [k, v] with k in {"num", "na", "str"}.                                  *)
(***************************************************************************)
EXTENDS Integers, Sequences, FiniteSets, TLC

VARIABLES
    w_raw, w_out, w_pc,                      \* clean_weather_data
    g_raw, g_grouped, g_sorted, g_filled, g_out, g_pc,  \* transform_gee_data
    f_names, f_input, f_out, f_warn, f_pc,   \* prepare_features_for_model
    r_p, r_model, r_auto, r_page,            \* rainfall categories
    db, ld_last, ld_runs,                    \* scheduled loaders
    u_db, u_files, u_pc, u_steps, u_runs, u_snap, u_gee_ok, u_verify,
    u_report,                                \* unified loader
    dag_state, dag_try, dag_run,              \* daily DAG
    xw_cfg, xw_locs, xw_pc, xw_i, xw_all, xw_file, xw_att, xw_log, xw_try,
    xw_err,                                  \* extract_weather_data
    xg_init, xg_pc, xg_i, xg_all, xg_got, xg_file, xg_att, xg_log,
    xg_try,                                   \* extract_gee_data
    a_raw, a_out, a_pc,    \* FAO transform
    m_X, m_clean, m_fit, m_train, m_test, m_pc,    \* model layer
    p_disk, p_mem, p_loaded, p_last,    \* model artifacts
    t_files, t_bad, t_entry, t_pc, t_i, t_results, t_att, t_exit,    \* train_all_models
    k_gee, k_X, k_y, k_mask, k_pc,    \* rainfall training table
    h_pc, h_i, h_results, h_report, h_exit,    \* GEE main pipeline
    q_models, q_pred, q_i, q_summary, q_pc,    \* automatic predictions
    s_disk, s_cache, s_shown, s_trained, s_trains,    \* dashboard models
    b_obj, b_disk, b_run, b_ok, b_last,    \* BaseModel object
    z_months, z_season, z_dry, z_wet, z_pc,    \* season labels
    c_caller, c_crop, c_stage, c_et0, c_etc    \* calculate_crop_et

wvars == <<w_raw, w_out, w_pc>>
gvars == <<g_raw, g_grouped, g_sorted, g_filled, g_out, g_pc>>
fvars == <<f_names, f_input, f_out, f_warn, f_pc>>
rvars == <<r_p, r_model, r_auto, r_page>>
lvars == <<db, ld_last, ld_runs>>
uvars == <<u_db, u_files, u_pc, u_steps, u_runs, u_snap, u_gee_ok, u_verify, u_report>>
dvars == <<dag_state, dag_try, dag_run>>
xwvars == <<xw_cfg, xw_locs, xw_pc, xw_i, xw_all, xw_file, xw_att, xw_log, xw_try, xw_err>>
xgvars == <<xg_init, xg_pc, xg_i, xg_all, xg_got, xg_file, xg_att, xg_log, xg_try>>
evars == <<xwvars, xgvars>>
avars == <<a_raw, a_out, a_pc>>
mvars == <<m_X, m_clean, m_fit, m_train, m_test, m_pc>>
pvars == <<p_disk, p_mem, p_loaded, p_last>>
tvars == <<t_files, t_bad, t_entry, t_pc, t_i, t_results, t_att, t_exit>>
kvars == <<k_gee, k_X, k_y, k_mask, k_pc>>
hvars == <<h_pc, h_i, h_results, h_report, h_exit>>
qvars == <<q_models, q_pred, q_i, q_summary, q_pc>>
svars == <<s_disk, s_cache, s_shown, s_trained, s_trains>>
bvars == <<b_obj, b_disk, b_run, b_ok, b_last>>
zvars == <<z_months, z_season, z_dry, z_wet, z_pc>>
cvars == <<c_caller, c_crop, c_stage, c_et0, c_etc>>
vars == <<wvars, gvars, fvars, rvars, lvars, uvars, dvars, evars, avars, mvars, pvars, tvars, kvars, hvars, qvars, svars, bvars, zvars, cvars>>

\* What a program leaves alone: the state of all the others.
notW == <<gvars, fvars, rvars, lvars, uvars, dvars, evars, avars, mvars, pvars, tvars, kvars, hvars, qvars, svars, bvars, zvars, cvars>>
notG == <<wvars, fvars, rvars, lvars, uvars, dvars, evars, avars, mvars, pvars, tvars, kvars, hvars, qvars, svars, bvars, zvars, cvars>>
notF == <<wvars, gvars, rvars, lvars, uvars, dvars, evars, avars, mvars, pvars, tvars, kvars, hvars, qvars, svars, bvars, zvars, cvars>>
notR == <<wvars, gvars, fvars, lvars, uvars, dvars, evars, avars, mvars, pvars, tvars, kvars, hvars, qvars, svars, bvars, zvars, cvars>>
notL == <<wvars, gvars, fvars, rvars, uvars, dvars, evars, avars, mvars, pvars, tvars, kvars, hvars, qvars, svars, bvars, zvars, cvars>>
notU == <<wvars, gvars, fvars, rvars, lvars, dvars, evars, avars, mvars, pvars, tvars, kvars, hvars, qvars, svars, bvars, zvars, cvars>>
notD == <<wvars, gvars, fvars, rvars, lvars, uvars, evars, avars, mvars, pvars, tvars, kvars, hvars, qvars, svars, bvars, zvars, cvars>>
notE == <<wvars, gvars, fvars, rvars, lvars, uvars, dvars, avars, mvars, pvars, tvars, kvars, hvars, qvars, svars, bvars, zvars, cvars>>
notA == <<wvars, gvars, fvars, rvars, lvars, uvars, dvars, evars, mvars, pvars, tvars, kvars, hvars, qvars, svars, bvars, zvars, cvars>>
notM == <<wvars, gvars, fvars, rvars, lvars, uvars, dvars, evars, avars, pvars, tvars, kvars, hvars, qvars, svars, bvars, zvars, cvars>>
notP == <<wvars, gvars, fvars, rvars, lvars, uvars, dvars, evars, avars, mvars, tvars, kvars, hvars, qvars, svars, bvars, zvars, cvars>>
notT == <<wvars, gvars, fvars, rvars, lvars, uvars, dvars, evars, avars, mvars, pvars, kvars, hvars, qvars, svars, bvars, zvars, cvars>>
notK == <<wvars, gvars, fvars, rvars, lvars, uvars, dvars, evars, avars, mvars, pvars, tvars, hvars, qvars, svars, bvars, zvars, cvars>>
notH == <<wvars, gvars, fvars, rvars, lvars, uvars, dvars, evars, avars, mvars, pvars, tvars, kvars, qvars, svars, bvars, zvars, cvars>>
notQ == <<wvars, gvars, fvars, rvars, lvars, uvars, dvars, evars, avars, mvars, pvars, tvars, kvars, hvars, svars, bvars, zvars, cvars>>
notS == <<wvars, gvars, fvars, rvars, lvars, uvars, dvars, evars, avars, mvars, pvars, tvars, kvars, hvars, qvars, bvars, zvars, cvars>>
notB == <<wvars, gvars, fvars, rvars, lvars, uvars, dvars, evars, avars, mvars, pvars, tvars, kvars, hvars, qvars, svars, zvars, cvars>>
notZ == <<wvars, gvars, fvars, rvars, lvars, uvars, dvars, evars, avars, mvars, pvars, tvars, kvars, hvars, qvars, svars, bvars, cvars>>
notC == <<wvars, gvars, fvars, rvars, lvars, uvars, dvars, evars, avars, mvars, pvars, tvars, kvars, hvars, qvars, svars, bvars, zvars>>

(***************************************************************************)
(* Cells and generic data-frame helpers (pandas semantics).                *)
(***************************************************************************)
Num(x) == [k |-> "num", v |-> x]
NA == [k |-> "na", v |-> 0]
Str == [k |-> "str", v |-> 0]

IsNA(c) == c.k = "na"

\* pd.to_numeric(col, errors="coerce"): an unparsable value becomes missing.
ToNumeric(c) == IF c.k = "str" THEN NA ELSE c

\* Series.between(lo, hi): inclusive on both sides, False for a missing value.
Between(c, lo, hi) == c.k = "num" /\ lo <= c.v /\ c.v <= hi

\* The rows of df whose index satisfies Keep, in order.
SelectIdx(df, Keep(_)) ==
    LET f[i \in 0..Len(df)] ==
            IF i = 0 THEN <<>>
            ELSE IF Keep(i) THEN Append(f[i - 1], df[i]) ELSE f[i - 1]
    IN f[Len(df)]

\* df[mask]: the rows satisfying P, in order.
FilterRows(df, P(_)) ==
    LET Keep(i) == P(df[i]) IN SelectIdx(df, Keep)

\* DataFrame.drop_duplicates(subset=...), keep="first": a row stays when no
\* earlier row has its key.
DropDupBy(df, Key(_)) ==
    LET Keep(i) == \A j \in 1..(i - 1) : Key(df[j]) # Key(df[i])
    IN SelectIdx(df, Keep)

MapRows(df, F(_)) == [i \in 1..Len(df) |-> F(df[i])]

Range(s) == {s[i] : i \in 1..Len(s)}

\* All sequences over S of length 0..n.
SeqsUpTo(S, n) == UNION {[1..k -> S] : k \in 0..n}

(***************************************************************************)
(* 1. clean_weather_data  (etl/transform_weather.py)                       *)
(***************************************************************************)
MaxWeatherRows == 3

HumMin == 0
HumMax == 100
TempMin == -80
TempMax == 60

WRow(ville, type, date, t, h) ==
    [ville |-> ville, type |-> type, date |-> date, temperature |-> t, humidite |-> h]

\* Raw rows as extract_weather_data writes them and read_csv reads them back.
WeatherRows ==
    { WRow("Dakar", "current", Num(d), th[1], th[2]) :
        d \in {1, 2},
        th \in { <<Num(-80), Num(100)>>, <<Num(60), Num(0)>>,
                 <<Num(61), Num(50)>>,   <<Num(-81), Num(50)>>,
                 <<Num(20), Num(101)>>,  <<Num(20), Num(-1)>>,
                 <<NA, Num(50)>>,        <<Num(20), Str>> } }
    \cup { WRow("Thies", "current", Num(1), Num(60), Num(0)),
           WRow("Dakar", "hourly", Num(1), Num(60), Num(0)),
           WRow("Dakar", "current", NA, Num(20), Num(50)) }

WholeRow(r) == r
WeatherKey(r) == <<r.ville, r.type, r.date>>

\* line 16: df.drop_duplicates() -- no subset: only rows equal in every column.
WDropDuplicates(df) == DropDupBy(df, WholeRow)

\* line 19: dropna(subset=["date", "temperature", "humidite"], how="any")
WHasEssentials(r) == ~IsNA(r.date) /\ ~IsNA(r.temperature) /\ ~IsNA(r.humidite)
WDropNA(df) == FilterRows(df, WHasEssentials)

\* lines 22-25: numeric coercion of the numeric columns.
WCoerceRow(r) ==
    [r EXCEPT !.temperature = ToNumeric(@), !.humidite = ToNumeric(@)]
WCoerce(df) == MapRows(df, WCoerceRow)

\* Faulty variant: the two range tests joined with "|" instead of "&".
WInRangeEither(r) ==
    Between(r.humidite, HumMin, HumMax) \/ Between(r.temperature, TempMin, TempMax)

\* lines 28-31: keep the rows inside both ranges.
WInRange(r) ==
    Between(r.humidite, HumMin, HumMax) /\ Between(r.temperature, TempMin, TempMax)
WRangeFilter(df) == FilterRows(df, WInRange)

clean_weather_data(df) == WRangeFilter(WCoerce(WDropNA(WDropDuplicates(df))))

WIdle == w_raw = <<>> /\ w_out = <<>> /\ w_pc = "idle"

WInit ==
    /\ w_raw \in SeqsUpTo(WeatherRows, MaxWeatherRows)
    /\ w_out = <<>>
    /\ w_pc = "raw"

\* transform_weather: read the raw file, clean it, write the cleaned file.
TransformWeather ==
    /\ w_pc = "raw"
    /\ w_out' = clean_weather_data(w_raw)
    /\ w_pc' = "clean"
    /\ UNCHANGED <<w_raw, notW>>

(***************************************************************************)
(* 2. transform_gee_data  (etl/transform_gee_data.py)                      *)
(*                                                                         *)
(* Numeric columns carry values scaled by 100 (25.00 degrees is 2500, a    *)
(* soil moisture of 0.30 is 30).  A frame has the key columns region,      *)
(* date, latitude, longitude and the value columns temperature_2m and ssm. *)
(***************************************************************************)
MaxGeeRows == 3

KelvinThreshold == 20000    \* "> 200"
KelvinOffset == 27315       \* "-= 273.15"
SsmUnit == 100              \* "> 1", "/ 100"

Regions == <<"Dakar", "Thies">>
RegionOrd(r) == CHOOSE i \in 1..Len(Regions) : Regions[i] = r

GRow(region, date, lat, t, ssm) ==
    [region |-> region, date |-> date, latitude |-> lat, longitude |-> Num(-1700),
     temperature_2m |-> t, ssm |-> ssm]

\* Raw rows of gee_senegal_all_data.csv: one row per region, date and product.
GeeRows ==
    { GRow("Dakar", Num(1), Num(1400), NA, Num(30)),
      GRow("Dakar", Num(1), Num(1400), Num(2500), NA),
      GRow("Dakar", Num(1), Num(1400), Num(30000), NA),
      GRow("Dakar", Num(1), Num(1500), Num(2600), NA),
      GRow("Dakar", Num(1), NA, Num(2500), NA),
      GRow("Dakar", Num(1), Str, Num(2400), NA),
      GRow("Dakar", Num(2), Num(1400), Num(2700), Num(4000)),
      GRow("Thies", Num(1), Num(1400), Num(2500), NA),
      GRow("Thies", Num(1), Num(1400), NA, Num(40)),
      GRow("Thies", Num(2), Num(1400), Num(2600), Num(-5)),
      GRow("Thies", Num(2), NA, Num(2500), Num(30)),
      GRow("Thies", Str, Num(1400), Num(2500), NA) }

\* lines 37-50: to_datetime / to_numeric with errors="coerce".
GCoerceRow(r) ==
    [r EXCEPT !.date = ToNumeric(@), !.latitude = ToNumeric(@),
              !.longitude = ToNumeric(@), !.temperature_2m = ToNumeric(@),
              !.ssm = ToNumeric(@)]
GCoerce(df) == MapRows(df, GCoerceRow)

GroupKey(r) == <<r.region, r.date, r.latitude, r.longitude>>
RegionDate(r) == <<r.region, r.date>>

\* groupby(..., dropna=True): a row with a missing key belongs to no group.
HasGroupKey(r) == ~IsNA(r.date) /\ ~IsNA(r.latitude) /\ ~IsNA(r.longitude)

\* The order groupby(sort=True) and sort_values give to keys.
KeyLess(a, b) ==
    LET ta == <<RegionOrd(a[1]), a[2].v, a[3].v, a[4].v>>
        tb == <<RegionOrd(b[1]), b[2].v, b[3].v, b[4].v>>
    IN \E n \in 1..4 : ta[n] < tb[n] /\ \A m \in 1..(n - 1) : ta[m] = tb[m]

RECURSIVE SortKeys(_)
SortKeys(S) ==
    IF S = {} THEN <<>>
    ELSE LET m == CHOOSE x \in S : \A y \in S \ {x} : KeyLess(x, y)
         IN <<m>> \o SortKeys(S \ {m})

\* Faulty variant: GroupBy.last(), the last non-null value of the group.
LastNonNull(df, key, c) ==
    LET idx == {i \in 1..Len(df) : GroupKey(df[i]) = key /\ ~IsNA(df[i][c])}
    IN IF idx = {} THEN NA
       ELSE df[CHOOSE i \in idx : \A j \in idx : j <= i][c]

\* GroupBy.first(): per column, the first non-null value of the group in
\* input order, missing when the group has none.
FirstNonNull(df, key, c) ==
    LET idx == {i \in 1..Len(df) : GroupKey(df[i]) = key /\ ~IsNA(df[i][c])}
    IN IF idx = {} THEN NA
       ELSE df[CHOOSE i \in idx : \A j \in idx : i <= j][c]

\* line 53: groupby(["region","date","latitude","longitude"]).first()
GroupFirst(df) ==
    LET keyed == FilterRows(df, HasGroupKey)
        keys == SortKeys({GroupKey(keyed[i]) : i \in 1..Len(keyed)})
    IN [n \in 1..Len(keys) |->
          [region |-> keys[n][1], date |-> keys[n][2],
           latitude |-> keys[n][3], longitude |-> keys[n][4],
           temperature_2m |-> FirstNonNull(keyed, keys[n], "temperature_2m"),
           ssm |-> FirstNonNull(keyed, keys[n], "ssm")]]

\* Faulty variant: the deduplication on (region, date) left out.
GDropDuplicatesNone(df) == df

\* line 58: drop_duplicates(subset=["region", "date"])
GDropDuplicates(df) == DropDupBy(df, RegionDate)

\* line 61: dropna(subset=["region", "date"])
GHasRegionDate(r) == ~IsNA(r.date)
GDropNA(df) == FilterRows(df, GHasRegionDate)

\* line 62: sort_values(by=["region", "date"]), a stable sort.
RowLess(a, b) ==
    \/ RegionOrd(a.region) < RegionOrd(b.region)
    \/ a.region = b.region /\ a.date.v < b.date.v
RECURSIVE InsertSorted(_, _)
InsertSorted(r, sorted) ==
    IF sorted = <<>> THEN <<r>>
    ELSE IF RowLess(r, Head(sorted)) THEN <<r>> \o sorted
    ELSE <<Head(sorted)>> \o InsertSorted(r, Tail(sorted))
RECURSIVE SortInto(_, _)
SortInto(df, acc) ==
    IF df = <<>> THEN acc ELSE SortInto(Tail(df), InsertSorted(Head(df), acc))
GSort(df) == SortInto(df, <<>>)

NumericCols == <<"temperature_2m", "ssm", "latitude", "longitude">>

\* The positions of the rows of row i's region.
SameRegion(df, i) == {j \in 1..Len(df) : df[j].region = df[i].region}

\* Series.interpolate(method="linear", limit_direction="both") on one region's
\* column: linear by position between the nearest valid neighbours, the
\* nearest valid value at the two edges, missing when the region has none.
InterpolateCell(df, i, c) ==
    LET grp == SameRegion(df, i)
        before == {j \in grp : j < i /\ ~IsNA(df[j][c])}
        after == {j \in grp : j > i /\ ~IsNA(df[j][c])}
        p == CHOOSE j \in before : \A k \in before : k <= j
        n == CHOOSE j \in after : \A k \in after : j <= k
        pos(j) == Cardinality({k \in grp : k <= j})
    IN IF ~IsNA(df[i][c]) THEN df[i][c]
       ELSE IF before # {} /\ after # {}
            THEN Num(df[p][c].v
                     + ((df[n][c].v - df[p][c].v) * (pos(i) - pos(p)))
                         \div (pos(n) - pos(p)))
       ELSE IF before # {} THEN df[p][c]
       ELSE IF after # {} THEN df[n][c]
       ELSE NA

\* lines 66-68: df[col] = df.groupby("region")[col].transform(interpolate)
GInterpolate(df) ==
    [i \in 1..Len(df) |->
        [c \in DOMAIN df[i] |->
            IF c \in Range(NumericCols) THEN InterpolateCell(df, i, c) ELSE df[i][c]]]

\* groupby("region")[cols].ffill(): the last valid value above, same region.
FFillCell(df, i, c) ==
    LET before == {j \in SameRegion(df, i) : j < i /\ ~IsNA(df[j][c])}
    IN IF ~IsNA(df[i][c]) \/ before = {} THEN df[i][c]
       ELSE df[CHOOSE j \in before : \A k \in before : k <= j][c]

\* DataFrame.bfill() on the frame ffill() returned: the next valid value
\* below in the whole frame.
BFillCell(df, i, c) ==
    LET after == {j \in 1..Len(df) : j > i /\ ~IsNA(df[j][c])}
    IN IF ~IsNA(df[i][c]) \/ after = {} THEN df[i][c]
       ELSE df[CHOOSE j \in after : \A k \in after : j <= k][c]

FillWith(df, Cell(_, _, _)) ==
    [i \in 1..Len(df) |->
        [c \in DOMAIN df[i] |->
            IF c \in Range(NumericCols) THEN Cell(df, i, c) ELSE df[i][c]]]

\* line 71: df[numeric_cols] = df.groupby("region")[numeric_cols].ffill().bfill()
GFFillBFill(df) == FillWith(FillWith(df, FFillCell), BFillCell)

\* lines 74-79: Kelvin to Celsius for the values above the threshold.
KelvinToCelsius(c) ==
    IF c.k = "num" /\ c.v > KelvinThreshold THEN Num(c.v - KelvinOffset) ELSE c
GConvertKelvin(df) ==
    [i \in 1..Len(df) |-> [df[i] EXCEPT !.temperature_2m = KelvinToCelsius(@)]]

\* lines 93-95: negative soil moisture becomes missing, a value above 1 is
\* taken as a percentage.
CleanSsm(c) ==
    IF c.k = "num" /\ c.v < 0 THEN NA
    ELSE IF c.k = "num" /\ c.v > SsmUnit THEN Num(c.v \div 100)
    ELSE c
GCleanSsm(df) == [i \in 1..Len(df) |-> [df[i] EXCEPT !.ssm = CleanSsm(@)]]

\* lines 52-54: the consolidated frame.
GConsolidate(raw) == GroupFirst(GCoerce(raw))

\* lines 56-62: duplicates dropped, rows sorted by region and date.
GSorted(grouped) == GSort(GDropNA(GDropDuplicates(grouped)))

\* lines 64-71: the gap filling.
GFilled(sorted) == GFFillBFill(GInterpolate(sorted))

\* lines 56-95: the rest of the transformation.
GFinish(grouped) == GCleanSsm(GConvertKelvin(GFilled(GSorted(grouped))))

GInit ==
    /\ g_raw \in SeqsUpTo(GeeRows, MaxGeeRows)
    /\ g_grouped = <<>>
    /\ g_sorted = <<>>
    /\ g_filled = <<>>
    /\ g_out = <<>>
    /\ g_pc = "raw"

\* transform_gee_data: g_grouped is the frame after line 53, g_sorted after
\* line 62, g_filled after line 71, g_out the frame written to
\* senegal_gee_transformed.csv.
TransformGee ==
    /\ g_pc = "raw"
    /\ g_grouped' = GConsolidate(g_raw)
    /\ g_sorted' = GSorted(GConsolidate(g_raw))
    /\ g_filled' = GFilled(GSorted(GConsolidate(g_raw)))
    /\ g_out' = GFinish(GConsolidate(g_raw))
    /\ g_pc' = "transformed"
    /\ UNCHANGED <<g_raw, notG>>

(***************************************************************************)
(* 3. prepare_features_for_model  (models/streamlit_app.py)                *)
(*                                                                         *)
(* input_data is a dict: a function whose domain is the set of keys it     *)
(* holds.  Temperatures are in tenths of a degree (25.0 is 250).  The      *)
(* model keeps the features below out of the all_features table; every     *)
(* other entry of the table is built the same way.                         *)
(***************************************************************************)
MaxFeatures == 3

\* dict.get(key, default)
Get(d, key, default) == IF key \in DOMAIN d THEN d[key] ELSE default

InputKeys == {"temperature", "temp_min", "season", "crop_type"}

\* The dicts the pages and the automatic predictor pass: any subset of keys.
InputDicts ==
    { [k \in K |-> CASE k = "temperature" -> t
                     [] k = "temp_min" -> m
                     [] k = "season" -> se
                     [] k = "crop_type" -> c] :
        K \in SUBSET InputKeys, t \in {300}, m \in {180},
        se \in {"Dry", "Wet"}, c \in {"riz"} }

\* Feature names a trained model may list; "soil_ph" is in no table.
FeatureNames ==
    {"temperature_2m", "temp_night_celsius", "is_wet_season", "crop_riz",
     "precipitation_lag_1", "soil_ph"}

IsInjective(q) == \A i, j \in 1..Len(q) : i # j => q[i] # q[j]

\* model.feature_names = X.columns.tolist(): non-empty, distinct names.
FeatureLists ==
    {q \in SeqsUpTo(FeatureNames, MaxFeatures) : q # <<>> /\ IsInjective(q)}

\* lines 77-135: the keys of all_features.
KnownFeatures ==
    {"temperature_2m", "temp_night_celsius", "is_wet_season", "crop_riz",
     "precipitation_lag_1"}

\* lines 77-165: the value all_features holds for a name.
all_features(d, name) ==
    CASE name = "temperature_2m" -> Get(d, "temperature", 250)
      [] name = "temp_night_celsius" ->
            Get(d, "temp_min", Get(d, "temperature", 250) - 80)
      [] name = "is_wet_season" -> IF Get(d, "season", "Wet") = "Wet" THEN 1 ELSE 0
      [] name = "crop_riz" -> IF Get(d, "crop_type", "mil") = "riz" THEN 1 ELSE 0
      [] name = "precipitation_lag_1" -> 0

\* Faulty variant: a feature missing from the table is skipped, not defaulted.
SelectKnownOnly(names, d) ==
    LET f[i \in 0..Len(names)] ==
            IF i = 0 THEN <<>>
            ELSE IF names[i] \in KnownFeatures
                 THEN Append(f[i - 1],
                             [name |-> names[i], value |-> all_features(d, names[i])])
                 ELSE f[i - 1]
    IN f[Len(names)]

\* lines 167-176: one column per name of model.feature_names, in that order;
\* a name missing from the table gets 0.0.
SelectFeatures(names, d) ==
    [i \in 1..Len(names) |->
        [name |-> names[i],
         value |-> IF names[i] \in KnownFeatures
                   THEN all_features(d, names[i]) ELSE 0]]

\* line 174: the names st.warning is called for.
MissingFeatures(names) == {names[i] : i \in 1..Len(names)} \ KnownFeatures

FInit ==
    /\ f_names \in FeatureLists
    /\ f_input \in InputDicts
    /\ f_out = <<>>
    /\ f_warn = {}
    /\ f_pc = "call"

\* prepare_features_for_model(model, input_data, date_str)
PrepareFeatures ==
    /\ f_pc = "call"
    /\ f_out' = SelectFeatures(f_names, f_input)
    /\ f_warn' = MissingFeatures(f_names)
    /\ f_pc' = "returned"
    /\ UNCHANGED <<f_names, f_input, notF>>

(***************************************************************************)
(* 4. Rainfall categories.  A prediction is in tenths of a millimetre.     *)
(***************************************************************************)
MaxRain == 200

\* Faulty variant: the first threshold compared with <=.
CategorizeRainfallInclusive(value) ==
    IF value <= 10 THEN "Pas de pluie"
    ELSE IF value < 50 THEN "Pluie légère"
    ELSE IF value < 150 THEN "Pluie modérée"
    ELSE "Pluie forte"

\* models/rainfall_prediction.py lines 160-172
PredictRainfallCategory(prediction) ==
    IF prediction < 10 THEN "Pas de pluie"
    ELSE IF prediction < 50 THEN "Pluie légère"
    ELSE IF prediction < 150 THEN "Pluie modérée"
    ELSE "Pluie forte"

\* models/real_time_data.py lines 313-322
CategorizeRainfall(value) ==
    IF value < 10 THEN "Pas de pluie"
    ELSE IF value < 50 THEN "Pluie légère"
    ELSE IF value < 150 THEN "Pluie modérée"
    ELSE "Pluie forte"

\* models/streamlit_app.py lines 1045-1057
RainfallPageCategory(prediction_value) ==
    IF prediction_value < 10 THEN "Pas de pluie"
    ELSE IF prediction_value < 50 THEN "Pluie légère"
    ELSE IF prediction_value < 150 THEN "Pluie modérée"
    ELSE "Pluie forte"

\* The estimator's output: any value, a linear model's may be negative.
RInit ==
    /\ r_p \in (-20)..MaxRain
    /\ r_model = "" /\ r_auto = "" /\ r_page = ""

predict_rainfall ==
    /\ r_model = ""
    /\ r_model' = PredictRainfallCategory(r_p)
    /\ UNCHANGED <<r_p, r_auto, r_page, notR>>

predict_all_for_city ==
    /\ r_auto = ""
    /\ r_auto' = CategorizeRainfall(r_p)
    /\ UNCHANGED <<r_p, r_model, r_page, notR>>

rainfall_page ==
    /\ r_page = ""
    /\ r_page' = RainfallPageCategory(r_p)
    /\ UNCHANGED <<r_p, r_model, r_auto, notR>>

(***************************************************************************)
(* 5. The scheduled loaders  (etl/load_weather.py, load_fao.py,            *)
(*    load_gee_data.py).                                                   *)
(*                                                                         *)
(* db maps a table to its committed rows.  A run reads the cleaned file    *)
(* (any content, or none) and may fail at any database step; ld_last       *)
(* records what the last run did and which exception left the function.    *)
(***************************************************************************)
MaxLoadRuns == 2

LoaderTables == {"meteo_data", "fao_data", "gee_data"}

\* Contents of a cleaned CSV file: rows are told apart by a number.
CleanFiles == {<<>>, <<1>>, <<2>>, <<1, 2>>}

\* Where a run can fail: nowhere, or at one of the calls inside the try.
FailPoints == {"none", "connect", "cursor", "create", "insert", "commit"}

NoRun ==
    [table |-> "", file |-> <<>>, fail |-> "", raised |-> "",
     rolled_back |-> FALSE, cur_closed |-> FALSE, conn_closed |-> FALSE]

\* except: conn.rollback() -- conn is unbound when connect() itself raised, so
\* the handler raises UnboundLocalError; otherwise it re-raises the error.
\* finally: cur.close(); conn.close() -- cur is unbound when connect() or
\* cursor() raised, so the cleanup raises UnboundLocalError before
\* conn.close() is reached.
LoaderOutcome(table, file, fail) ==
    LET conn_bound == fail # "connect"
        cur_bound == fail \notin {"connect", "cursor"}
    IN [table |-> table, file |-> file, fail |-> fail,
        raised |-> IF fail = "none" THEN "none"
                   ELSE IF ~cur_bound THEN "UnboundLocalError"
                   ELSE "psycopg2.Error",
        rolled_back |-> fail # "none" /\ conn_bound,
        cur_closed |-> cur_bound,
        conn_closed |-> cur_bound]

\* executemany / execute_batch of the INSERT statement, then commit: the rows
\* of the file are added to the rows the table holds.
InsertCommitted(rows, file) == rows \o file

\* One run of a loader on the file it finds.
RunLoader(table, file, fail) ==
    /\ ld_runs < MaxLoadRuns
    /\ ld_runs' = ld_runs + 1
    /\ ld_last' = LoaderOutcome(table, file, fail)
    /\ db' = IF fail = "none"
             THEN [db EXCEPT ![table] = InsertCommitted(@, file)]
             ELSE db

\* The file is missing (or, for load_gee_data, empty): the loader raises
\* before it opens a connection.
RunWithoutFile(table, error) ==
    /\ ld_runs < MaxLoadRuns
    /\ ld_runs' = ld_runs + 1
    /\ ld_last' = [NoRun EXCEPT !.table = table, !.fail = "file", !.raised = error]
    /\ UNCHANGED db

LInit ==
    /\ db = [t \in LoaderTables |-> <<>>]
    /\ ld_last = NoRun
    /\ ld_runs = 0

load_weather_data ==
    /\ \/ RunWithoutFile("meteo_data", "FileNotFoundError")
       \/ \E file \in CleanFiles, fail \in FailPoints :
             RunLoader("meteo_data", file, fail)
    /\ UNCHANGED notL

load_fao_data ==
    /\ \/ RunWithoutFile("fao_data", "FileNotFoundError")
       \/ \E file \in CleanFiles, fail \in FailPoints :
             RunLoader("fao_data", file, fail)
    /\ UNCHANGED notL

load_gee_data ==
    /\ \/ RunWithoutFile("gee_data", "FileNotFoundError")
       \/ RunWithoutFile("gee_data", "ValueError")
       \/ \E file \in CleanFiles \ {<<>>}, fail \in FailPoints :
             RunLoader("gee_data", file, fail)
    /\ UNCHANGED notL

(***************************************************************************)
(* 6. The unified loader  (script/load_to_postgres.py).                    *)
(*                                                                         *)
(* main() runs its steps in order; u_pc is the step it is at.  A row of a  *)
(* file is a number; row 0 is a row the table rejects (a NULL in a NOT     *)
(* NULL column, a value of the wrong type), so that the INSERT holding it  *)
(* fails.  Whether a load fails is decided by the file alone.  u_gee_ok    *)
(* and u_verify are what load_gee_data and verify_data returned, u_report  *)
(* is the line the summary printed.                                        *)
(***************************************************************************)
MaxUnifiedRuns == 2
ChunkSize == 2      \* chunk_size = 1000, scaled to the files of the model

UnifiedTables == {"fao_data", "weather_data", "gee_senegal_agro_data"}

File(rows) == [exists |-> TRUE, rows |-> rows]
NoFile == [exists |-> FALSE, rows |-> <<>>]

FaoCsvs == {NoFile, File(<<1>>), File(<<1, 2>>), File(<<1, 0>>)}
WeatherCsvs == {NoFile, File(<<1, 2>>), File(<<0>>)}
\* The concatenation of the *_consolidated_data.csv files found.
GeeCsvs == {NoFile, File(<<1>>), File(<<1, 2, 1>>), File(<<1, 2, 0>>), File(<<0, 1, 2>>)}

\* What the tables may hold before a run: nothing, or rows of an older load.
StaleRows == {<<>>, <<9>>}

Accepts(rows) == \A i \in 1..Len(rows) : rows[i] # 0

\* DataFrame.to_sql(if_exists="append"): one INSERT, all rows or none.
ToSqlAppend(table_rows, rows) ==
    IF Accepts(rows) THEN table_rows \o rows ELSE table_rows

\* lines 384-410: to_sql per chunk of chunk_size rows, each chunk its own
\* transaction; the first failing chunk ends the loop.
RECURSIVE LoadChunks(_, _)
LoadChunks(table_rows, rows) ==
    IF rows = <<>> THEN [rows |-> table_rows, ok |-> TRUE]
    ELSE LET n == IF Len(rows) < ChunkSize THEN Len(rows) ELSE ChunkSize
             chunk == SubSeq(rows, 1, n)
         IN IF Accepts(chunk)
            THEN LoadChunks(table_rows \o chunk, SubSeq(rows, n + 1, Len(rows)))
            ELSE [rows |-> table_rows, ok |-> FALSE]

\* Faulty variant: clear_tables without the TRUNCATE of weather_data.
ClearedKeepWeather(d) ==
    [d EXCEPT !["fao_data"] = <<>>, !["gee_senegal_agro_data"] = <<>>]

\* lines 172-194: DROP + CREATE of fao_data, TRUNCATE of the two others.
Cleared(d) == [t \in UnifiedTables |-> <<>>]

UInit ==
    /\ u_db \in [UnifiedTables -> StaleRows]
    /\ u_files \in [fao : FaoCsvs, weather : WeatherCsvs, gee : GeeCsvs]
    /\ u_pc = "create_tables"
    /\ u_steps = 0
    /\ u_runs = 0
    /\ u_snap = <<>>
    /\ u_gee_ok = "none"
    /\ u_verify = "none"
    /\ u_report = "none"

\* lines 63-170: CREATE TABLE IF NOT EXISTS leaves existing rows alone.
create_tables ==
    /\ u_pc = "create_tables"
    /\ u_steps' = 1
    /\ u_pc' = "clear_tables"
    /\ UNCHANGED <<u_db, u_files, u_runs, u_snap, u_gee_ok, u_verify, u_report, notU>>

clear_tables ==
    /\ u_pc = "clear_tables"
    /\ u_db' = Cleared(u_db)
    /\ u_steps' = u_steps + 1
    /\ u_pc' = "load_fao_weather_data"
    /\ UNCHANGED <<u_files, u_runs, u_snap, u_gee_ok, u_verify, u_report, notU>>

\* lines 196-231: an absent file is skipped, a failed load is printed.
load_fao_weather_data ==
    /\ u_pc = "load_fao_weather_data"
    /\ u_db' = [u_db EXCEPT
                  !["fao_data"] =
                      IF u_files.fao.exists THEN ToSqlAppend(@, u_files.fao.rows) ELSE @,
                  !["weather_data"] =
                      IF u_files.weather.exists
                      THEN ToSqlAppend(@, u_files.weather.rows) ELSE @]
    /\ u_pc' = "load_gee_data"
    /\ UNCHANGED <<u_files, u_steps, u_runs, u_snap, u_gee_ok, u_verify, u_report, notU>>

\* lines 317-410: no file, False; else the chunked load.
unified_load_gee_data ==
    /\ u_pc = "load_gee_data"
    /\ LET res == IF u_files.gee.exists
                  THEN LoadChunks(u_db["gee_senegal_agro_data"], u_files.gee.rows)
                  ELSE [rows |-> u_db["gee_senegal_agro_data"], ok |-> FALSE]
       IN /\ u_db' = [u_db EXCEPT !["gee_senegal_agro_data"] = res.rows]
          /\ u_steps' = IF res.ok THEN u_steps + 1 ELSE u_steps
          /\ u_gee_ok' = IF ~u_files.gee.exists THEN "no_file"
                         ELSE IF res.ok THEN "loaded" ELSE "failed"
    /\ u_pc' = "create_views"
    /\ UNCHANGED <<u_files, u_runs, u_snap, u_verify, u_report, notU>>

\* lines 412-499: an error of a CREATE VIEW is printed; the call returns
\* normally and main counts the step.
create_views ==
    /\ u_pc = "create_views"
    /\ u_steps' = u_steps + 1
    /\ u_pc' = "verify_data"
    /\ UNCHANGED <<u_db, u_files, u_runs, u_snap, u_gee_ok, u_verify, u_report, notU>>

\* lines 501-519: True when the SELECT on data_summary succeeds, False when
\* it raises (the view is missing, the connection is lost).
verify_data ==
    /\ u_pc = "verify_data"
    /\ \E ok \in BOOLEAN :
          /\ u_verify' = IF ok THEN "verified" ELSE "failed"
          /\ u_steps' = IF ok THEN u_steps + 1 ELSE u_steps
    /\ u_pc' = "summary"
    /\ UNCHANGED <<u_db, u_files, u_runs, u_snap, u_gee_ok, u_report, notU>>

\* lines 556-564: "Chargement réussi" or "Chargement partiel".
Report(steps) == IF steps >= 4 THEN "success" ELSE "partial"

\* lines 555-564: the summary ends the run; u_snap keeps what the tables hold
\* at the end of each run.
main_summary ==
    /\ u_pc = "summary"
    /\ u_snap' = Append(u_snap, u_db)
    /\ u_report' = Report(u_steps)
    /\ u_runs' = u_runs + 1
    /\ u_pc' = "done"
    /\ UNCHANGED <<u_db, u_files, u_steps, u_gee_ok, u_verify, notU>>

\* The script is run again on the same files.
main_again ==
    /\ u_pc = "done"
    /\ u_runs < MaxUnifiedRuns
    /\ u_pc' = "create_tables"
    /\ u_steps' = 0
    /\ u_gee_ok' = "none"
    /\ u_verify' = "none"
    /\ u_report' = "none"
    /\ UNCHANGED <<u_db, u_files, u_runs, u_snap, notU>>

(***************************************************************************)
(* 7. The Airflow DAG etl_pipeline_meteo_fao_gee  (dags/etl.pipeline_dag   *)
(*    .py).                                                                *)
(*                                                                         *)
(* Eight PythonOperator tasks with the default trigger rule all_success    *)
(* and default_args retries = 1.  A task instance is none, running,        *)
(* up_for_retry, success, failed or upstream_failed.                       *)
(***************************************************************************)
MaxDagRuns == 2
Retries == 1

Tasks == {"extract_weather", "transform_weather", "load_weather",
          "transform_fao", "load_fao",
          "extract_gee", "transform_gee", "load_gee"}

\* Faulty variant: the weather chain without transform_weather >> load_weather.
UpstreamWithoutLoadEdge(t) ==
    CASE t = "transform_weather" -> {"extract_weather"}
      [] t = "load_fao" -> {"transform_fao"}
      [] t = "transform_gee" -> {"extract_gee"}
      [] t = "load_gee" -> {"transform_gee"}
      [] OTHER -> {}

\* lines 88, 91, 94: the direct upstream tasks set by >>.
Upstream(t) ==
    CASE t = "transform_weather" -> {"extract_weather"}
      [] t = "load_weather" -> {"transform_weather"}
      [] t = "load_fao" -> {"transform_fao"}
      [] t = "transform_gee" -> {"extract_gee"}
      [] t = "load_gee" -> {"transform_gee"}
      [] OTHER -> {}

\* trigger rule all_success: every direct upstream task succeeded.
Runnable(t) == \A u \in Upstream(t) : dag_state[u] = "success"

UpstreamLost(t) ==
    \E u \in Upstream(t) : dag_state[u] \in {"failed", "upstream_failed"}

Finished(t) == dag_state[t] \in {"success", "failed", "upstream_failed"}

DInit ==
    /\ dag_state = [t \in Tasks |-> "none"]
    /\ dag_try = [t \in Tasks |-> 0]
    /\ dag_run = 1

\* The scheduler queues a task whose dependencies are met; the executor
\* runs it.
task_start ==
    \E t \in Tasks :
        /\ dag_state[t] \in {"none", "up_for_retry"}
        /\ Runnable(t)
        /\ dag_state' = [dag_state EXCEPT ![t] = "running"]
        /\ dag_try' = [dag_try EXCEPT ![t] = @ + 1]
        /\ UNCHANGED <<dag_run, notD>>

\* The python_callable returns.
task_success ==
    \E t \in Tasks :
        /\ dag_state[t] = "running"
        /\ dag_state' = [dag_state EXCEPT ![t] = "success"]
        /\ UNCHANGED <<dag_try, dag_run, notD>>

\* The python_callable raises: retried while tries remain, else failed.
task_failure ==
    \E t \in Tasks :
        /\ dag_state[t] = "running"
        /\ dag_state' = [dag_state EXCEPT
                           ![t] = IF dag_try[t] <= Retries
                                  THEN "up_for_retry" ELSE "failed"]
        /\ UNCHANGED <<dag_try, dag_run, notD>>

\* all_success with a failed upstream: the task is never run.
task_upstream_failed ==
    \E t \in Tasks :
        /\ dag_state[t] = "none"
        /\ UpstreamLost(t)
        /\ dag_state' = [dag_state EXCEPT ![t] = "upstream_failed"]
        /\ UNCHANGED <<dag_try, dag_run, notD>>

\* schedule_interval @daily, depends_on_past False: the next run starts
\* from fresh task instances.
next_dag_run ==
    /\ \A t \in Tasks : Finished(t)
    /\ dag_run < MaxDagRuns
    /\ dag_run' = dag_run + 1
    /\ dag_state' = [t \in Tasks |-> "none"]
    /\ dag_try' = [t \in Tasks |-> 0]
    /\ UNCHANGED notD

(***************************************************************************)
(* 8. The extractors  (etl/extract_weather.py, etl/extract_gee_data.py),   *)
(*    each run as an Airflow task with default_args retries.               *)
(*                                                                         *)
(* x?_pc is the position of the task: scheduled, loop (inside the          *)
(* callable), success, up_for_retry or failed.  x?_att counts, per unit,   *)
(* the attempts made in the DAG run; x?_try counts the executions of the   *)
(* task.                                                                   *)
(***************************************************************************)
MaxCities == 2

Cities == {"Dakar", "Thies", "Kaolack"}

\* coords.json: a list of {ville, lat, lon}; coords is "lat and lon".
Locations ==
    {q \in SeqsUpTo([ville : Cities, coords : BOOLEAN], MaxCities) :
        q # <<>> /\ \A i, j \in 1..Len(q) : i # j => q[i].ville # q[j].ville}

\* What one city's request can do: answer 200 with a full payload, answer
\* non-200, raise (timeout, connection error), or answer 200 with a payload
\* that raises while it is read (an hourly entry without "dt").
CityOutcomes == {"ok", "http_error", "timeout", "bad_payload"}

\* lines 60-104: the records appended for a city before the iteration ends.
CityRecords(ville, oc) ==
    CASE oc = "ok" -> <<[ville |-> ville, type |-> "current"],
                        [ville |-> ville, type |-> "hourly"],
                        [ville |-> ville, type |-> "daily"]>>
      [] oc = "bad_payload" -> <<[ville |-> ville, type |-> "current"]>>
      [] OTHER -> <<>>

\* Faulty variant: a city whose request timed out is asked again.
NextCityRetrying(i, oc) == IF oc = "timeout" THEN i ELSE i + 1

\* line 38: the for loop moves to the next location whatever happened.
NextCity(i, oc) == i + 1

\* Airflow: a raising callable is retried while tries remain.
AfterRaise(try) == IF try <= Retries THEN "up_for_retry" ELSE "failed"

XWInit ==
    /\ xw_cfg \in [api_key : {"ok", "missing", "nofile"}, coords_file : BOOLEAN]
    /\ xw_locs \in Locations
    /\ xw_pc = "scheduled"
    /\ xw_i = 0
    /\ xw_all = <<>>
    /\ xw_file \in {NoFile, File(<<[ville |-> "Dakar", type |-> "stale"]>>)}
    /\ xw_att = [i \in 1..Len(xw_locs) |-> 0]
    /\ xw_log = {}
    /\ xw_try = 0
    /\ xw_err = ""

\* lines 21-36: the API key and the coordinates are read.
extract_weather_begin ==
    /\ xw_pc \in {"scheduled", "up_for_retry"}
    /\ xw_try' = xw_try + 1
    /\ LET err == CASE xw_cfg.api_key = "nofile" -> "FileNotFoundError: config.json"
                    [] xw_cfg.api_key = "missing" -> "ValueError: Clé API OpenWeather manquante"
                    [] ~xw_cfg.coords_file -> "FileNotFoundError: coords.json"
                    [] OTHER -> ""
       IN /\ xw_err' = err
          /\ xw_pc' = IF err = "" THEN "loop" ELSE AfterRaise(xw_try + 1)
    /\ xw_i' = 1
    /\ xw_all' = <<>>
    /\ xw_log' = {}
    /\ UNCHANGED <<xw_cfg, xw_locs, xw_file, xw_att, xgvars, notE>>

\* lines 38-110: one iteration of the loop over the locations.
extract_city ==
    /\ xw_pc = "loop"
    /\ xw_i <= Len(xw_locs)
    /\ LET loc == xw_locs[xw_i]
       IN IF ~loc.coords
          THEN /\ xw_log' = xw_log \cup {loc.ville}
               /\ xw_i' = xw_i + 1
               /\ UNCHANGED <<xw_all, xw_att>>
          ELSE \E oc \in CityOutcomes :
               /\ xw_att' = [xw_att EXCEPT ![xw_i] = @ + 1]
               /\ xw_all' = xw_all \o CityRecords(loc.ville, oc)
               /\ xw_log' = IF oc = "ok" THEN xw_log ELSE xw_log \cup {loc.ville}
               /\ xw_i' = NextCity(xw_i, oc)
    /\ UNCHANGED <<xw_cfg, xw_locs, xw_pc, xw_file, xw_try, xw_err, xgvars, notE>>

\* lines 112-118: the frame is written; the write itself may fail.
write_weather ==
    /\ xw_pc = "loop"
    /\ xw_i > Len(xw_locs)
    /\ \/ /\ xw_file' = File(xw_all)
          /\ xw_pc' = "success"
          /\ UNCHANGED xw_err
       \/ /\ xw_err' = "OSError"
          /\ xw_pc' = AfterRaise(xw_try)
          /\ UNCHANGED xw_file
    /\ UNCHANGED <<xw_cfg, xw_locs, xw_i, xw_all, xw_att, xw_log, xw_try, xgvars, notE>>

MaxRegions == 2

\* REGIONS_SENEGAL, in dict order.
RegionNames == <<"Dakar", "Diourbel", "Fatick", "Kaffrine">>
ExtractRegions == SubSeq(RegionNames, 1, MaxRegions)

\* lines 55-70: the collections, in the order their getInfo() is called.
Sources == <<"ERA5", "CHIRPS", "MODIS_TEMP", "MODIS_VI", "SMAP">>

SourceRecords(region, upto) ==
    [k \in 1..upto |-> [region |-> region, source |-> Sources[k]]]

\* lines 50-100: failed_at is the first source whose getInfo() raises, 0 when
\* none does.  The five calls share one try: on a raise the frame returned
\* is empty.
extract_region_data(region, failed_at) ==
    IF failed_at = 0 THEN SourceRecords(region, Len(Sources)) ELSE <<>>

\* The records the calls before the failing one returned.
Obtained(region, failed_at) ==
    Range(SourceRecords(region,
                        IF failed_at = 0 THEN Len(Sources) ELSE failed_at - 1))

XGInit ==
    /\ xg_init \in {"ok", "fail"}
    /\ xg_pc = "scheduled"
    /\ xg_i = 0
    /\ xg_all = <<>>
    /\ xg_got = {}
    /\ xg_file \in {NoFile, File(<<[region |-> "Dakar", source |-> "stale"]>>)}
    /\ xg_att = [i \in 1..Len(ExtractRegions) |-> 0]
    /\ xg_log = {}
    /\ xg_try = 0

\* lines 103-114: ee.Initialize; a failure is printed and the function
\* returns, which Airflow records as a success.
extract_gee_begin ==
    /\ xg_pc \in {"scheduled", "up_for_retry"}
    /\ xg_try' = xg_try + 1
    /\ xg_pc' = IF xg_init = "ok" THEN "loop" ELSE "success"
    /\ xg_i' = 1
    /\ xg_all' = <<>>
    /\ xg_got' = {}
    /\ xg_log' = IF xg_init = "ok" THEN {} ELSE {"init"}
    /\ UNCHANGED <<xg_init, xg_file, xg_att, xwvars, notE>>

\* lines 115-118: one region.
extract_region ==
    /\ xg_pc = "loop"
    /\ xg_i <= Len(ExtractRegions)
    /\ \E failed_at \in 0..Len(Sources) :
          LET region == ExtractRegions[xg_i]
          IN /\ xg_all' = xg_all \o extract_region_data(region, failed_at)
             /\ xg_got' = xg_got \cup Obtained(region, failed_at)
             /\ xg_log' = IF failed_at = 0 THEN xg_log ELSE xg_log \cup {region}
    /\ xg_att' = [xg_att EXCEPT ![xg_i] = @ + 1]
    /\ xg_i' = xg_i + 1
    /\ UNCHANGED <<xg_init, xg_pc, xg_file, xg_try, xwvars, notE>>

\* lines 120-141: the file is written only when some region gave rows.
write_gee ==
    /\ xg_pc = "loop"
    /\ xg_i > Len(ExtractRegions)
    /\ IF xg_all = <<>>
       THEN /\ xg_pc' = "success"
            /\ UNCHANGED xg_file
       ELSE \/ /\ xg_file' = File(xg_all)
               /\ xg_pc' = "success"
            \/ /\ xg_pc' = AfterRaise(xg_try)
               /\ UNCHANGED xg_file
    /\ UNCHANGED <<xg_init, xg_i, xg_all, xg_got, xg_att, xg_log, xg_try, xwvars, notE>>

(***************************************************************************)
(* 9. The FAO transform  (etl/transform_fao.py, script/transform_fao.py).  *)
(*                                                                         *)
(* A year cell is a number in tenths: 20190 is 2019, 20195 is 2019.5.      *)
(***************************************************************************)
MaxFaoRows == 2
YearUnit == 10

FaoRows ==
    [value : {Num(5), NA, Str},
     year : {Num(20190), Num(20195), NA, Str},
     item : {"mil", ""}]

IsWholeYear(c) == c.k = "num" /\ c.v % YearUnit = 0

\* astype(str).str.strip(): a missing string becomes the text "nan".
AsStr(s) == IF s = "" THEN "nan" ELSE s

FaoValueStep(df) ==
    FilterRows(MapRows(df, LAMBDA r : [r EXCEPT !.value = ToNumeric(@)]),
               LAMBDA r : ~IsNA(r.value))

\* etl lines 60-66 after a successful cast: rows without a year are dropped.
FaoDropBadYears(df) ==
    MapRows(FilterRows(df, LAMBDA r : ~IsNA(r.year)),
            LAMBDA r : [r EXCEPT !.item = AsStr(@)])

\* etl/transform_fao.py lines 45-69.  astype("Int64") raises TypeError when a
\* year that is a number is not a whole number; ok is FALSE then.
clean_fao_data(df) ==
    LET valued == FaoValueStep(df)
        coerced == MapRows(valued, LAMBDA r : [r EXCEPT !.year = ToNumeric(@)])
        castable == \A i \in 1..Len(coerced) :
                        IsNA(coerced[i].year) \/ IsWholeYear(coerced[i].year)
    IN IF castable
       THEN [ok |-> TRUE, df |-> FaoDropBadYears(coerced)]
       ELSE [ok |-> FALSE, df |-> <<>>]

\* script/transform_fao.py lines 51-97.  astype(int) truncates.
script_clean_fao_data(df) ==
    LET valued == FaoValueStep(df)
        coerced == MapRows(valued, LAMBDA r : [r EXCEPT !.year = ToNumeric(@)])
        kept == FilterRows(coerced, LAMBDA r : ~IsNA(r.year))
    IN [ok |-> TRUE,
        df |-> MapRows(kept, LAMBDA r :
                   [r EXCEPT !.year = Num(@.v - (@.v % YearUnit)),
                             !.item = AsStr(@)])]

AInit ==
    /\ a_raw \in SeqsUpTo(FaoRows, MaxFaoRows)
    /\ a_out = <<>>
    /\ a_pc = "call"

\* etl main(), lines 109-129: an exception is printed and 1 is returned.
transform_fao ==
    /\ a_pc = "call"
    /\ LET res == clean_fao_data(a_raw)
       IN /\ a_out' = res.df
          /\ a_pc' = IF res.ok THEN "etl_returned_0" ELSE "etl_returned_1"
    /\ UNCHANGED <<a_raw, notA>>

script_transform_fao ==
    /\ a_pc = "call"
    /\ a_out' = script_clean_fao_data(a_raw).df
    /\ a_pc' = "script_returned_0"
    /\ UNCHANGED <<a_raw, notA>>

(***************************************************************************)
(* 10. The model layer  (models/base_model.py): preprocess_data and train. *)
(*                                                                         *)
(* m_X is the feature frame, m_clean the frame after the mean imputation,  *)
(* m_fit the rows the scaler was fitted on, m_train and m_test the rows of *)
(* the two splits.                                                         *)
(***************************************************************************)
MaxTrainRows == 3
TestPercent == 20     \* test_size = 0.2

FeatureCols == <<"temperature_2m", "ssm">>

TrainRows == [temperature_2m : {Num(1), Num(3), NA}, ssm : {Num(1), Num(3), NA}]

\* The feature columns of a frame of senegal_gee_transformed.csv.
FeatureFrame(df) ==
    [i \in 1..Len(df) |-> [c \in Range(FeatureCols) |-> df[i][c]]]

\* X.mean(): the mean of the values present, NaN when there is none.
ColumnMean(df, c) ==
    LET present == {i \in 1..Len(df) : ~IsNA(df[i][c])}
        sum[i \in 0..Len(df)] ==
            IF i = 0 THEN 0
            ELSE sum[i - 1] + (IF i \in present THEN df[i][c].v ELSE 0)
    IN IF present = {} THEN NA ELSE Num(sum[Len(df)] \div Cardinality(present))

\* line 72: X.fillna(X.mean())
FillnaMean(df) ==
    [i \in 1..Len(df) |->
        [c \in DOMAIN df[i] |-> IF IsNA(df[i][c]) THEN ColumnMean(df, c) ELSE df[i][c]]]

\* train_test_split: ceil(test_size * n) test rows.
TestCount(n) == (n * TestPercent + 99) \div 100

MInit ==
    /\ m_X \in SeqsUpTo(TrainRows, MaxTrainRows)
    /\ m_clean = <<>>
    /\ m_fit = {}
    /\ m_train = {}
    /\ m_test = {}
    /\ m_pc = "call"

\* BaseModel.train, lines 84-126: preprocess_data(X, y, fit_scaler=True) on
\* the whole frame, then train_test_split (which raises when a split would
\* be empty), then model.fit on the training rows.  The seeded shuffle picks
\* the test rows; which rows it picks is not fixed here.
train ==
    /\ m_pc = "call"
    /\ m_clean' = FillnaMean(m_X)
    /\ m_fit' = 1..Len(m_X)
    /\ LET n == Len(m_X)
       IN IF n - TestCount(n) <= 0
          THEN m_pc' = "raised" /\ m_train' = {} /\ m_test' = {}
          ELSE \E test \in SUBSET (1..n) :
                  /\ Cardinality(test) = TestCount(n)
                  /\ m_test' = test
                  /\ m_train' = (1..n) \ test
                  /\ m_pc' = "trained"
    /\ UNCHANGED <<m_X, notM>>

\* preprocess_data, lines 69-82, on the frame transform_gee_data wrote.
preprocess_data ==
    /\ g_pc = "transformed"
    /\ m_pc = "idle"
    /\ m_X' = FeatureFrame(g_out)
    /\ m_clean' = FillnaMean(FeatureFrame(g_out))
    /\ m_fit' = 1..Len(g_out)
    /\ m_pc' = "preprocessed"
    /\ UNCHANGED <<m_train, m_test, notM>>

(***************************************************************************)
(* 11. Model artifacts  (models/base_model.py save_model, load_model).     *)
(*                                                                         *)
(* An artifact is identified by the training run that produced it (0: no   *)
(* file, nothing in memory).  p_mem is the run held by the object in       *)
(* memory, p_disk the run of each file on disk, p_loaded what load_model   *)
(* last put in memory.                                                     *)
(***************************************************************************)
MaxTrainRuns == 3

\* lines 143-149: the files, in the order joblib.dump writes them.
ArtifactFiles == <<"model", "scaler", "features">>

NoArtifacts == [f \in Range(ArtifactFiles) |-> 0]

PInit ==
    /\ p_disk = NoArtifacts
    /\ p_mem = 0
    /\ p_loaded = NoArtifacts
    /\ p_last = "none"

\* train_model up to the call of save_model: a new estimator, scaler and
\* feature list in memory.
retrain ==
    /\ p_mem < MaxTrainRuns
    /\ p_mem' = p_mem + 1
    /\ p_last' = "trained"
    /\ UNCHANGED <<p_disk, p_loaded, notP>>

\* The files written when the dump of file number failed_at raises (0: none
\* does): every file before it holds the run in memory, the others keep
\* what they held.
DumpedUpTo(disk, run, failed_at) ==
    [f \in Range(ArtifactFiles) |->
        IF \E k \in 1..Len(ArtifactFiles) :
              ArtifactFiles[k] = f /\ (failed_at = 0 \/ k < failed_at)
        THEN run ELSE disk[f]]

\* save_model, lines 138-151: three joblib.dump calls in a row.
save_model ==
    /\ p_last = "trained"
    /\ \E failed_at \in 0..Len(ArtifactFiles) :
          /\ p_disk' = DumpedUpTo(p_disk, p_mem, failed_at)
          /\ p_last' = IF failed_at = 0 THEN "saved" ELSE "save_failed"
    /\ UNCHANGED <<p_mem, p_loaded, notP>>

\* load_model, lines 153-167: all three files must exist.
load_model ==
    /\ p_last # "trained"
    /\ IF \A f \in Range(ArtifactFiles) : p_disk[f] # 0
       THEN p_loaded' = p_disk /\ p_last' = "loaded"
       ELSE p_last' = "FileNotFoundError" /\ UNCHANGED p_loaded
    /\ UNCHANGED <<p_disk, p_mem, notP>>

(***************************************************************************)
(* 12. Training of all models  (models/train_all_models.py).               *)
(*                                                                         *)
(* t_files tells which of the three processed files exist, t_bad the       *)
(* models whose own training raises (a required column is missing, the     *)
(* frame is empty), t_entry whether the script is run or train_all_models  *)
(* is called as a function.                                                *)
(***************************************************************************)
\* lines 38-43: models_to_train, in order.
ModelsToTrain == <<"rainfall", "drought", "irrigation", "disease">>

\* base_model.py lines 44-67: load_data reads the three files in one try and
\* re-raises; every train_model calls it through prepare_features.
LoadDataRaises(files) == ~(files.gee /\ files.meteo /\ files.fao)

\* lines 48-68: the status recorded for one model.
TrainStatus(m, files, bad) ==
    IF LoadDataRaises(files) \/ m \in bad THEN "error" ELSE "success"

\* Faulty variant: the loop stops at the first model in error.
NextModelStopOnError(i, status) ==
    IF status = "error" THEN Len(ModelsToTrain) + 1 ELSE i + 1

\* line 45: the loop goes on to the next model whatever the status.
NextModel(i, status) == i + 1

\* lines 139-145: the exit code.
ExitCode(res) ==
    IF \E m \in Range(ModelsToTrain) : res[m] = "error" THEN 1 ELSE 0

TInit ==
    /\ t_files \in [gee : BOOLEAN, meteo : BOOLEAN, fao : BOOLEAN]
    /\ t_bad \in SUBSET Range(ModelsToTrain)
    /\ t_entry \in {"script", "function"}
    /\ t_pc = "start"
    /\ t_i = 1
    /\ t_results = [m \in Range(ModelsToTrain) |-> "none"]
    /\ t_att = [m \in Range(ModelsToTrain) |-> 0]
    /\ t_exit = -1

\* lines 126-133: the script checks the three files first; a call of the
\* function goes straight to the loop.
validate_data_availability ==
    /\ t_pc = "start"
    /\ IF t_entry = "script" /\ LoadDataRaises(t_files)
       THEN t_pc' = "exited" /\ t_exit' = 1
       ELSE t_pc' = "training" /\ UNCHANGED t_exit
    /\ UNCHANGED <<t_files, t_bad, t_entry, t_i, t_results, t_att, notT>>

\* lines 45-68: one iteration of the loop.
train_one_model ==
    /\ t_pc = "training"
    /\ t_i <= Len(ModelsToTrain)
    /\ LET m == ModelsToTrain[t_i]
           status == TrainStatus(m, t_files, t_bad)
       IN /\ t_results' = [t_results EXCEPT ![m] = status]
          /\ t_att' = [t_att EXCEPT ![m] = @ + 1]
          /\ t_i' = NextModel(t_i, status)
    /\ UNCHANGED <<t_files, t_bad, t_entry, t_pc, t_exit, notT>>

\* lines 70-89 and 138-145: the summary, then the exit code of the script.
train_all_models_end ==
    /\ t_pc = "training"
    /\ t_i > Len(ModelsToTrain)
    /\ IF t_entry = "script"
       THEN t_pc' = "exited" /\ t_exit' = ExitCode(t_results)
       ELSE t_pc' = "returned" /\ UNCHANGED t_exit
    /\ UNCHANGED <<t_files, t_bad, t_entry, t_i, t_results, t_att, notT>>

(***************************************************************************)
(* 13. The rainfall model's training table  (models/rainfall_prediction    *)
(*     .py): prepare_features, get_target_variable, train_model.  The      *)
(*     drought and irrigation feature builders end with the same fill.     *)
(*                                                                         *)
(* The satellite table holds at most one row per (region, date); a row     *)
(* carries total_precipitation_sum.  A feature cell also records the       *)
(* region of the row its value was taken from.  One lag (shift(1)) and one *)
(* rolling window stand for the lags 1, 3, 7 and the windows 3, 7, 15.     *)
(***************************************************************************)
MaxDates == 2
RollWindow == 2

RainRegions == <<"Dakar", "Thies">>
RainKeys == 1..(Len(RainRegions) * MaxDates)
KeyRegion(key) == RainRegions[((key - 1) \div MaxDates) + 1]
KeyDate(key) == ((key - 1) % MaxDates) + 1

\* What the table holds for a key: no row, or a row whose precipitation is
\* missing, 0 mm or 4 mm.
PrecipChoices == {"absent", "missing", "dry", "wet"}
PrecipCell(choice) ==
    CASE choice = "missing" -> NA
      [] choice = "dry" -> Num(0)
      [] OTHER -> Num(4)

RainRow(key, choice) ==
    [region |-> KeyRegion(key), date |-> KeyDate(key),
     total_precipitation_sum |-> PrecipCell(choice)]

\* The rows of the table in the order of the file: by key, or reversed.
RainFrame(choices, reversed) ==
    LET N == Len(RainRegions) * MaxDates
        At(i) == IF reversed THEN N + 1 - i ELSE i
        f[i \in 0..N] ==
            IF i = 0 THEN <<>>
            ELSE IF choices[At(i)] = "absent" THEN f[i - 1]
            ELSE Append(f[i - 1], RainRow(At(i), choices[At(i)]))
    IN f[N]

RainRowLess(a, b) ==
    \/ \E i, j \in 1..Len(RainRegions) :
          i < j /\ RainRegions[i] = a.region /\ RainRegions[j] = b.region
    \/ a.region = b.region /\ a.date < b.date

\* sort_values(['region', 'date'])
RainSort(df) ==
    LET Rank(i) == Cardinality({j \in 1..Len(df) : RainRowLess(df[j], df[i])}) + 1
    IN [p \in 1..Len(df) |-> df[CHOOSE i \in 1..Len(df) : Rank(i) = p]]

FeatureCell(c, region) == [k |-> c.k, v |-> c.v, from |-> region]
FeatureNA == [k |-> "na", v |-> 0, from |-> ""]

\* Position of the row n places before row i in its own region (0: none).
GroupBack(df, i, n) ==
    IF i - n >= 1 /\ df[i - n].region = df[i].region THEN i - n ELSE 0

\* groupby('region')[col].shift(1)
GroupShiftBack(df, i) ==
    LET j == GroupBack(df, i, 1)
    IN IF j = 0 THEN FeatureNA
       ELSE FeatureCell(df[j].total_precipitation_sum, df[j].region)

\* groupby('region')[col].rolling(window).sum(): missing until the region
\* has window rows, and when a value of the window is missing.
GroupRollingSum(df, i) ==
    LET first == GroupBack(df, i, RollWindow - 1)
        Sum[j \in (i - RollWindow)..i] ==
            IF j = i - RollWindow THEN 0
            ELSE Sum[j - 1] + df[j].total_precipitation_sum.v
    IN IF first = 0 \/ \E j \in first..i : IsNA(df[j].total_precipitation_sum)
       THEN FeatureNA
       ELSE [k |-> "num", v |-> Sum[i], from |-> df[i].region]

\* groupby('region')[col].shift(-1)
GroupShiftForward(df, i) ==
    IF i + 1 <= Len(df) /\ df[i + 1].region = df[i].region
    THEN df[i + 1].total_precipitation_sum ELSE NA

\* Series.fillna(method='ffill') on one column of the whole frame.
FFillColumn(col) ==
    LET f[i \in 1..Len(col)] ==
            IF col[i].k # "na" THEN col[i]
            ELSE IF i = 1 THEN col[i] ELSE f[i - 1]
    IN [i \in 1..Len(col) |-> f[i]]

\* Series.fillna(method='bfill') on one column of the whole frame.
BFillColumn(col) ==
    LET n == Len(col)
        f[i \in 1..n] ==
            IF col[n + 1 - i].k # "na" THEN col[n + 1 - i]
            ELSE IF i = 1 THEN col[n + 1 - i] ELSE f[i - 1]
    IN [i \in 1..n |-> f[n + 1 - i]]

\* line 97: features_df[final_features].fillna(ffill).fillna(bfill)
FillFeature(col) == BFillColumn(FFillColumn(col))

\* lines 78-97 of prepare_features.
RainFeatures(gee) ==
    LET df == RainSort(gee)
        lag == FillFeature([i \in 1..Len(df) |-> GroupShiftBack(df, i)])
        roll == FillFeature([i \in 1..Len(df) |-> GroupRollingSum(df, i)])
        precip == FillFeature([i \in 1..Len(df) |->
                      FeatureCell(df[i].total_precipitation_sum, df[i].region)])
    IN [i \in 1..Len(df) |->
          [region |-> df[i].region, date |-> df[i].date,
           total_precipitation_sum |-> precip[i],
           precipitation_lag |-> lag[i],
           precipitation_roll |-> roll[i]]]

\* line 111: target.fillna(0)
TargetFill(c) == IF IsNA(c) THEN Num(0) ELSE c

\* lines 102-111 of get_target_variable.
RainTarget(gee) ==
    LET df == RainSort(gee)
    IN [i \in 1..Len(df) |-> TargetFill(GroupShiftForward(df, i))]

\* line 122: mask = ~(X.isna().any(axis=1) | y.isna())
RainMask(X, y) ==
    {i \in 1..Len(X) :
        /\ ~IsNA(X[i].total_precipitation_sum)
        /\ ~IsNA(X[i].precipitation_lag)
        /\ ~IsNA(X[i].precipitation_roll)
        /\ ~IsNA(y[i])}

KInit ==
    /\ \E choices \in [RainKeys -> PrecipChoices], reversed \in BOOLEAN :
          k_gee = RainFrame(choices, reversed)
    /\ k_X = <<>>
    /\ k_y = <<>>
    /\ k_mask = {}
    /\ k_pc = "start"

rainfall_prepare_features ==
    /\ k_pc = "start"
    /\ k_X' = RainFeatures(k_gee)
    /\ k_pc' = "features"
    /\ UNCHANGED <<k_gee, k_y, k_mask, notK>>

rainfall_get_target_variable ==
    /\ k_pc = "features"
    /\ k_y' = RainTarget(k_gee)
    /\ k_pc' = "target"
    /\ UNCHANGED <<k_gee, k_X, k_mask, notK>>

\* lines 121-129: the rows of the mask go to BaseModel.train.
rainfall_train_model ==
    /\ k_pc = "target"
    /\ k_mask' = RainMask(k_X, k_y)
    /\ k_pc' = "trained"
    /\ UNCHANGED <<k_gee, k_X, k_y, notK>>

(***************************************************************************)
(* 14. The GEE main pipeline  (copernicus_data/main_gee_pipeline.py).      *)
(*                                                                         *)
(* h_results is the results dict in insertion order: one entry             *)
(* [step, success, output] per executed step.  h_exit is the exit code of  *)
(* the process, -1 while it runs.                                          *)
(***************************************************************************)
PipelineSteps == <<"extract", "organize", "analyze", "dashboard">>

\* What running a step's script can do: return code 0, another return code,
\* or subprocess.run itself raising; organize_data may find no script.
ScriptOutcomes(step) ==
    {"returncode_0", "returncode_nonzero", "exception"}
        \cup (IF step = "organize" THEN {"no_script"} ELSE {})

\* lines 23-50 and 91-99: (success, output) of a step.
run_script(step, outcome) ==
    [step |-> step,
     success |-> outcome \in {"returncode_0", "no_script"},
     output |-> CASE outcome = "returncode_0" -> "stdout"
                  [] outcome = "no_script" -> "Skipped"
                  [] outcome = "returncode_nonzero" -> "stderr"
                  [] OTHER -> "str(e)"]

\* Faulty variant: no step is critical.
CriticalNone == {}

\* line 213: if not success and step_id in ['extract']
Critical == {"extract"}

\* lines 207-216: where the loop goes after a step: to the next step, or out
\* of the loop (0) after the last step or a failed critical step.
AfterStep(i, res) ==
    IF (~res.success /\ res.step \in Critical) \/ i = Len(PipelineSteps)
    THEN 0 ELSE i + 1

SuccessfulSteps(results) ==
    Cardinality({i \in 1..Len(results) : results[i].success})

\* lines 225-233: 2 * successful >= total is successful >= total * 0.5.
PipelineExitCode(results) ==
    IF SuccessfulSteps(results) = Len(results) THEN 0
    ELSE IF 2 * SuccessfulSteps(results) >= Len(results) THEN 1
    ELSE 2

HInit ==
    /\ h_pc = "check_prerequisites"
    /\ h_i = 0
    /\ h_results = <<>>
    /\ h_report = "none"
    /\ h_exit = -1

\* lines 52-84, 191-193: a missing script or a failed ee.Initialize() ends
\* main with 1 before any step.
check_prerequisites ==
    /\ h_pc = "check_prerequisites"
    /\ \E ok \in BOOLEAN :
          IF ok
          THEN h_pc' = "steps" /\ h_i' = 1 /\ h_exit' = h_exit
          ELSE h_pc' = "done" /\ h_i' = h_i /\ h_exit' = 1
    /\ UNCHANGED <<h_results, h_report, notH>>

\* lines 207-216: one turn of the loop over pipeline_steps.
pipeline_step ==
    /\ h_pc = "steps"
    /\ \E outcome \in ScriptOutcomes(PipelineSteps[h_i]) :
          LET res == run_script(PipelineSteps[h_i], outcome)
          IN /\ h_results' = Append(h_results, res)
             /\ h_i' = AfterStep(h_i, res)
             /\ h_pc' = IF AfterStep(h_i, res) = 0 THEN "report" ELSE "steps"
    /\ UNCHANGED <<h_report, h_exit, notH>>

\* lines 111-149, 219-233: the report file is written, then main returns the
\* exit code; when mkdir or the write raises, the exception leaves main and
\* the interpreter exits with 1.
generate_pipeline_report ==
    /\ h_pc = "report"
    /\ \E written \in BOOLEAN :
          /\ h_report' = IF written THEN "written" ELSE "error"
          /\ h_exit' = IF written THEN PipelineExitCode(h_results) ELSE 1
    /\ h_pc' = "done"
    /\ UNCHANGED <<h_i, h_results, notH>>

(***************************************************************************)
(* 15. Automatic predictions  (models/real_time_data.py).                  *)
(*                                                                         *)
(* q_models is the set of models the predictor was built with.  q_pred is  *)
(* all_predictions in insertion order: one entry per call of               *)
(* predict_all_for_city, with what each try block met (outcomes) and what  *)
(* the call returned.  An exception is an Exception subclass.              *)
(***************************************************************************)
MaxPredictCities == 2

\* The first keys of cities_coords.
PredictCities == SubSeq(<<"Dakar", "Thies", "Saint-Louis", "Kaolack">>, 1, MaxPredictCities)

PredictModels == {"rainfall", "drought", "irrigation"}

\* What the try block of one model meets: a prediction, no feature frame
\* (prepare_features_for_model returned None), or an exception.
ModelOutcomes == {"predicted", "no_features", "raises"}

\* lines 224/232/240, 253/261/269 ('confidence') and 282/294/302
\* ('efficiency').
Confidence(model, outcome) ==
    IF model = "irrigation"
    THEN CASE outcome = "predicted" -> 85
           [] outcome = "no_features" -> 75
           [] OTHER -> 70
    ELSE CASE outcome = "predicted" -> 85
           [] outcome = "no_features" -> 60
           [] OTHER -> 50

\* Faulty variant: no try block around a model, its exception reaches the
\* handler of the whole call.
InnerEscapesAlways(outcome) == outcome = "raises"

\* lines 234, 263, 296: except Exception around each model.
InnerEscapes(outcome) == FALSE

\* lines 196-311: the value returned for a city.  When get_complete_data
\* raises no model is run; the handler of the whole call returns the error.
PredictAll(city, models, data_raises, outcomes) ==
    IF data_raises
    THEN [city |-> city, error |-> TRUE,
          outcomes |-> [m \in models |-> "not_run"],
          results |-> [m \in {} |-> 0]]
    ELSE IF \E m \in models : InnerEscapes(outcomes[m])
    THEN [city |-> city, error |-> TRUE, outcomes |-> outcomes,
          results |-> [m \in {} |-> 0]]
    ELSE [city |-> city, error |-> FALSE, outcomes |-> outcomes,
          results |-> [m \in models |->
                          [default |-> outcomes[m] # "predicted",
                           confidence |-> Confidence(m, outcomes[m])]]]

QInit ==
    /\ q_models \in SUBSET PredictModels
    /\ q_pred = <<>>
    /\ q_i = 1
    /\ q_summary = <<>>
    /\ q_pc = "loop"

\* lines 349-350: one turn of the loop over cities_coords.
predict_city_all_models ==
    /\ q_pc = "loop"
    /\ q_i <= Len(PredictCities)
    /\ \E data_raises \in BOOLEAN, outcomes \in [q_models -> ModelOutcomes] :
          q_pred' = Append(q_pred,
                       PredictAll(PredictCities[q_i], q_models, data_raises, outcomes))
    /\ q_i' = q_i + 1
    /\ UNCHANGED <<q_models, q_summary, q_pc, notQ>>

\* lines 352-379: the summary counts the entries and skips the errors.
get_daily_predictions_all_cities ==
    /\ q_pc = "loop"
    /\ q_i > Len(PredictCities)
    /\ q_summary' = [total_cities |-> Len(q_pred),
                     analysed |-> {q_pred[i].city : i \in {j \in 1..Len(q_pred) : ~q_pred[j].error}}]
    /\ q_pc' = "done"
    /\ UNCHANGED <<q_models, q_pred, q_i, notQ>>

(***************************************************************************)
(* 16. The dashboard's models  (models/streamlit_app.py): load_models      *)
(*     under st.cache_resource, and the training buttons of config_page.   *)
(*                                                                         *)
(* s_disk gives, per model, the version of the artifact on disk (0: none). *)
(* s_cache is the resource cache of the process: empty, or the dict        *)
(* load_models returned, which gives per model the version loaded (0: the  *)
(* entry is None).  s_shown is what the last run of the page displayed.    *)
(***************************************************************************)
MaxDashTrains == 2

DashModels == {"rainfall", "drought", "irrigation", "disease"}

NoCache == [full |-> FALSE, models |-> [m \in DashModels |-> 0]]

\* lines 180-213: every model is loaded from its artifact; a failed
\* load_model leaves None.
LoadFromDisk(disk) == [full |-> TRUE, models |-> disk]

\* line 179: @st.cache_resource -- the body runs on the first call of the
\* process only; later calls return the cached dict.
load_models(cache, disk) == IF cache.full THEN cache ELSE LoadFromDisk(disk)

\* lines 1951-1956: a model is shown active when its entry is not None.
ModelStatus(cache) == [m \in DashModels |-> cache.models[m] # 0]

SInit ==
    /\ s_disk \in [DashModels -> {0, 1}]
    /\ s_cache = NoCache
    /\ s_shown = [m \in DashModels |-> FALSE]
    /\ s_trained = {}
    /\ s_trains = 0

\* lines 215-230: a run of the script: main calls load_models, the page
\* shows the state of the models.
page_run ==
    /\ s_cache' = load_models(s_cache, s_disk)
    /\ s_shown' = ModelStatus(load_models(s_cache, s_disk))
    /\ s_trained' = {}
    /\ UNCHANGED <<s_disk, s_trains, notS>>

\* lines 1970-2037: a training button.  The click runs the script; the
\* models of trained (one model for a single button, any of the four for
\* "train all") are trained and saved, the others fail; after a success
\* st.experimental_rerun() runs the script again from the top.
config_page_train ==
    /\ s_trains < MaxDashTrains
    /\ \E trained \in SUBSET DashModels :
          LET cache == load_models(s_cache, s_disk)
              disk == [m \in DashModels |->
                          IF m \in trained THEN s_trains + 2 ELSE s_disk[m]]
          IN /\ s_disk' = disk
             /\ s_cache' = load_models(cache, disk)
             /\ s_shown' = ModelStatus(load_models(cache, disk))
             /\ s_trained' = trained
    /\ s_trains' = s_trains + 1
    /\ UNCHANGED notS

\* The Streamlit process is restarted: the resource cache starts empty.
process_restart ==
    /\ s_cache.full
    /\ s_cache' = NoCache
    /\ s_shown' = [m \in DashModels |-> FALSE]
    /\ s_trained' = {}
    /\ UNCHANGED <<s_disk, s_trains, notS>>

(***************************************************************************)
(* 17. The life cycle of a BaseModel object  (models/base_model.py).       *)
(*                                                                         *)
(* b_obj holds the attributes model, scaler, feature_names (the training   *)
(* run that produced the value; 0 is None, or the unfitted scaler of       *)
(* __init__) and is_trained.  Run 1 is the run of an earlier process whose *)
(* artifacts may be on disk.  b_last is the last call: its name, the       *)
(* exception that left it and the attributes before it.  b_ok records that *)
(* a train or a load_model has returned normally.                          *)
(***************************************************************************)
MaxModelRuns == 2

\* lines 24-32
NewObject == [model |-> 0, scaler |-> 0, feature_names |-> 0, is_trained |-> FALSE]

\* Where train can raise: nowhere, in preprocess_data (line 95), in
\* model.fit (line 103) or in the evaluation (lines 106-121).
TrainFailPoints == {"none", "preprocess", "fit", "evaluate"}

\* Faulty variant: is_trained is set before the fit.
TrainedAfterEarly(obj, fail) == TRUE

\* line 123: is_trained = True is the last assignment of train.
TrainedAfter(obj, fail) == IF fail = "none" THEN TRUE ELSE obj.is_trained

\* lines 84-126: the attributes after train, run being the new run.
Trained(obj, run, fail) ==
    [model |-> run,
     feature_names |-> run,
     scaler |-> IF fail = "preprocess" THEN obj.scaler ELSE run,
     is_trained |-> TrainedAfter(obj, fail)]

\* lines 147-149: the files after the dumps, the dump of file number
\* failed_at raising (0: none does).
DumpedObject(disk, obj, failed_at) ==
    LET value == [model |-> obj.model, scaler |-> obj.scaler,
                  features |-> obj.feature_names]
    IN [f \in Range(ArtifactFiles) |->
          IF \E k \in 1..Len(ArtifactFiles) :
                ArtifactFiles[k] = f /\ (failed_at = 0 \/ k < failed_at)
          THEN value[f] ELSE disk[f]]

\* lines 162-165: the attributes after the loads, the load of file number
\* failed_at raising (0: none does).
LoadedObject(disk, obj, failed_at) ==
    [model |-> IF failed_at = 1 THEN obj.model ELSE disk["model"],
     scaler |-> IF failed_at \in {1, 2} THEN obj.scaler ELSE disk["scaler"],
     feature_names |-> IF failed_at = 0 THEN disk["features"] ELSE obj.feature_names,
     is_trained |-> IF failed_at = 0 THEN TRUE ELSE obj.is_trained]

Call(op, raised) == [op |-> op, raised |-> raised, before |-> b_obj]

BInit ==
    /\ b_obj = NewObject
    /\ b_disk \in {NoArtifacts,
                   [f \in Range(ArtifactFiles) |-> 1],
                   [f \in Range(ArtifactFiles) |-> IF f = "features" THEN 0 ELSE 1]}
    /\ b_run = 1
    /\ b_ok = FALSE
    /\ b_last = [op |-> "__init__", raised |-> "none", before |-> NewObject]

base_train ==
    /\ b_run <= MaxModelRuns
    /\ \E fail \in TrainFailPoints :
          /\ b_obj' = Trained(b_obj, b_run + 1, fail)
          /\ b_ok' = (b_ok \/ fail = "none")
          /\ b_last' = Call("train", IF fail = "none" THEN "none" ELSE "Exception")
    /\ b_run' = b_run + 1
    /\ UNCHANGED <<b_disk, notB>>

\* lines 128-136: the guard, then the prediction (which may raise too).
base_predict ==
    /\ \E fails \in BOOLEAN :
          b_last' = Call("predict",
                         IF ~b_obj.is_trained THEN "ValueError"
                         ELSE IF fails THEN "Exception" ELSE "none")
    /\ UNCHANGED <<b_obj, b_disk, b_run, b_ok, notB>>

\* lines 138-151
base_save_model ==
    /\ IF ~b_obj.is_trained
       THEN b_last' = Call("save_model", "ValueError") /\ UNCHANGED b_disk
       ELSE \E failed_at \in 0..Len(ArtifactFiles) :
               /\ b_disk' = DumpedObject(b_disk, b_obj, failed_at)
               /\ b_last' = Call("save_model",
                                 IF failed_at = 0 THEN "none" ELSE "OSError")
    /\ UNCHANGED <<b_obj, b_run, b_ok, notB>>

\* lines 153-167: all three files must exist; a file that exists may still
\* fail to load.
base_load_model ==
    /\ IF \E f \in Range(ArtifactFiles) : b_disk[f] = 0
       THEN /\ b_last' = Call("load_model", "FileNotFoundError")
            /\ UNCHANGED <<b_obj, b_ok>>
       ELSE \E failed_at \in 0..Len(ArtifactFiles) :
               /\ b_obj' = LoadedObject(b_disk, b_obj, failed_at)
               /\ b_ok' = (b_ok \/ failed_at = 0)
               /\ b_last' = Call("load_model",
                                 IF failed_at = 0 THEN "none" ELSE "Exception")
    /\ UNCHANGED <<b_disk, b_run, notB>>

(***************************************************************************)
(* 18. Season labels, from transform_gee_data (etl/transform_gee_data.py)  *)
(*     to the feature builders (models/drought_prediction.py,              *)
(*     models/disease_prediction.py).                                      *)
(*                                                                         *)
(* z_months is the month column of the satellite table: the months of the  *)
(* year that have rows, in order.                                          *)
(***************************************************************************)
CalendarMonths == 1..12

\* lines 85-90 of transform_gee_data: df["month"].map({...})
SeasonOf(month) ==
    CASE month \in {12, 1, 2} -> "Dry"
      [] month \in {3, 4, 5} -> "Transition"
      [] month \in {6, 7, 8, 9} -> "Rainy"
      [] OTHER -> "Post-Rainy"

\* drought_prediction.py line 66, irrigation_optimization.py line 171
IsDrySeason(season) == IF season = "Dry" THEN 1 ELSE 0

\* disease_prediction.py line 109
IsWetSeason(season) == IF season = "Wet" THEN 1 ELSE 0

MonthColumn(present) ==
    LET f[m \in 0..12] ==
            IF m = 0 THEN <<>>
            ELSE IF m \in present THEN Append(f[m - 1], m) ELSE f[m - 1]
    IN f[12]

ZInit ==
    /\ \E present \in SUBSET CalendarMonths : z_months = MonthColumn(present)
    /\ z_season = <<>>
    /\ z_dry = <<>>
    /\ z_wet = <<>>
    /\ z_pc = "raw"

transform_gee_season ==
    /\ z_pc = "raw"
    /\ z_season' = [i \in 1..Len(z_months) |-> SeasonOf(z_months[i])]
    /\ z_pc' = "transformed"
    /\ UNCHANGED <<z_months, z_dry, z_wet, notZ>>

drought_prepare_features ==
    /\ z_pc = "transformed"
    /\ z_dry = <<>>
    /\ z_dry' = [i \in 1..Len(z_season) |-> IsDrySeason(z_season[i])]
    /\ z_pc' = IF z_wet # <<>> \/ z_season = <<>> THEN "features" ELSE z_pc
    /\ UNCHANGED <<z_months, z_season, z_wet, notZ>>

disease_prepare_features ==
    /\ z_pc = "transformed"
    /\ z_wet = <<>>
    /\ z_wet' = [i \in 1..Len(z_season) |-> IsWetSeason(z_season[i])]
    /\ z_pc' = IF z_dry # <<>> \/ z_season = <<>> THEN "features" ELSE z_pc
    /\ UNCHANGED <<z_months, z_season, z_dry, notZ>>

(***************************************************************************)
(* 19. Crop evapotranspiration  (models/irrigation_optimization.py         *)
(*     calculate_crop_et).                                                 *)
(*                                                                         *)
(* Coefficients are in hundredths (kc 0.3 is 30).  For a crop of           *)
(* growing_days T the coefficient is kept as the exact fraction            *)
(* num / (200 * T): KcScaled is kc * 100 * 2 * T.  ET0 is in whole         *)
(* millimetres, so that ETc = ET0 * KcScaled / (200 * T).  A behaviour is  *)
(* one call of the function, from one of its two callers.                  *)
(***************************************************************************)
TrainStageLimit == 180      \* np.random.randint(1, 180): stages 1..179
SliderStageMax == 200       \* st.slider(..., 1, 200, 60)

\* lines 25-32
crop_coefficients ==
    [mil |-> [kc_initial |-> 30, kc_mid |-> 100, kc_end |-> 40, growing_days |-> 120],
     sorgho |-> [kc_initial |-> 30, kc_mid |-> 115, kc_end |-> 40, growing_days |-> 130],
     mais |-> [kc_initial |-> 30, kc_mid |-> 120, kc_end |-> 60, growing_days |-> 125],
     riz |-> [kc_initial |-> 105, kc_mid |-> 120, kc_end |-> 90, growing_days |-> 150],
     arachide |-> [kc_initial |-> 40, kc_mid |-> 115, kc_end |-> 60, growing_days |-> 130],
     coton |-> [kc_initial |-> 35, kc_mid |-> 115, kc_end |-> 70, growing_days |-> 180]]

\* lines 99-102: an unknown crop is computed as 'mil'.
CropData(crop_type) ==
    IF crop_type \in DOMAIN crop_coefficients
    THEN crop_coefficients[crop_type] ELSE crop_coefficients["mil"]

\* line 111, at four times the stage x4 = 4 * growth_stage:
\* progress = (growth_stage - T/4) / (T/2) = (x4 - T) / (2 * T)
KcDevelopment(c, x4) ==
    c.kc_initial * 2 * c.growing_days
        + (x4 - c.growing_days) * (c.kc_mid - c.kc_initial)

\* line 115: progress = (growth_stage - 3T/4) / (T/4) = (x4 - 3 * T) / T
KcFinal(c, x4) ==
    c.kc_mid * 2 * c.growing_days
        + 2 * (x4 - 3 * c.growing_days) * (c.kc_end - c.kc_mid)

\* lines 106-115
KcScaled(crop_type, growth_stage) ==
    LET c == CropData(crop_type)
    IN IF 4 * growth_stage <= c.growing_days
       THEN c.kc_initial * 2 * c.growing_days
       ELSE IF 4 * growth_stage <= 3 * c.growing_days
       THEN KcDevelopment(c, 4 * growth_stage)
       ELSE KcFinal(c, 4 * growth_stage)

\* line 117: et0 * kc, as a fraction.
calculate_crop_et(et0, crop_type, growth_stage) ==
    [num |-> et0 * KcScaled(crop_type, growth_stage),
     den |-> 200 * CropData(crop_type).growing_days]

CropTypes == DOMAIN crop_coefficients
Et0Values == {0, 3, 6}

CInit ==
    /\ c_caller = "none"
    /\ c_crop = "mil"
    /\ c_stage = 1
    /\ c_et0 = 0
    /\ c_etc = calculate_crop_et(0, "mil", 1)

\* lines 157-166 of prepare_features: a training row with a random crop and
\* a random stage.
irrigation_prepare_features ==
    /\ c_caller = "none"
    /\ \E crop \in CropTypes, stage \in 1..(TrainStageLimit - 1), et0 \in Et0Values :
          /\ c_crop' = crop
          /\ c_stage' = stage
          /\ c_et0' = et0
          /\ c_etc' = calculate_crop_et(et0, crop, stage)
    /\ c_caller' = "prepare_features"
    /\ UNCHANGED notC

\* streamlit_app.py lines 1313-1315 and optimize_irrigation line 306: the
\* crop of the select box (or any other string from another caller) and the
\* stage of the slider.
optimize_irrigation ==
    /\ c_caller = "none"
    /\ \E crop \in CropTypes \cup {"niebe"}, stage \in 1..SliderStageMax,
          et0 \in Et0Values :
          /\ c_crop' = crop
          /\ c_stage' = stage
          /\ c_et0' = et0
          /\ c_etc' = calculate_crop_et(et0, crop, stage)
    /\ c_caller' = "optimize_irrigation"
    /\ UNCHANGED notC

(***************************************************************************)
(* Idle values of the programs a specification does not run.               *)
(***************************************************************************)
GIdle == g_raw = <<>> /\ g_grouped = <<>> /\ g_sorted = <<>> /\ g_filled = <<>>
         /\ g_out = <<>> /\ g_pc = "idle"
FIdle == f_names = <<>> /\ f_input = <<>> /\ f_out = <<>> /\ f_warn = {} /\ f_pc = "idle"
RIdle == r_p = 0 /\ r_model = "" /\ r_auto = "" /\ r_page = ""
LIdle == db = <<>> /\ ld_last = NoRun /\ ld_runs = 0
UIdle == u_db = <<>> /\ u_files = <<>> /\ u_pc = "idle" /\ u_steps = 0
         /\ u_runs = 0 /\ u_snap = <<>> /\ u_gee_ok = "none"
         /\ u_verify = "none" /\ u_report = "none"
DIdle == dag_state = <<>> /\ dag_try = <<>> /\ dag_run = 0
XWIdle ==
    /\ xw_cfg = <<>> /\ xw_locs = <<>> /\ xw_pc = "idle" /\ xw_i = 0 /\ xw_all = <<>>
    /\ xw_file = <<>> /\ xw_att = <<>> /\ xw_log = {} /\ xw_try = 0 /\ xw_err = ""
XGIdle ==
    /\ xg_init = "" /\ xg_pc = "idle" /\ xg_i = 0 /\ xg_all = <<>> /\ xg_got = {}
    /\ xg_file = <<>> /\ xg_att = <<>> /\ xg_log = {} /\ xg_try = 0
EIdle == XWIdle /\ XGIdle
AIdle == a_raw = <<>> /\ a_out = <<>> /\ a_pc = "idle"
MIdle == m_X = <<>> /\ m_clean = <<>> /\ m_fit = {} /\ m_train = {} /\ m_test = {}
         /\ m_pc = "idle"
PIdle == p_disk = <<>> /\ p_mem = 0 /\ p_loaded = <<>> /\ p_last = "idle"
TIdle == t_files = <<>> /\ t_bad = {} /\ t_entry = "" /\ t_pc = "idle" /\ t_i = 0
         /\ t_results = <<>> /\ t_att = <<>> /\ t_exit = -1
KIdle == k_gee = <<>> /\ k_X = <<>> /\ k_y = <<>> /\ k_mask = {} /\ k_pc = "idle"
HIdle == h_pc = "idle" /\ h_i = 0 /\ h_results = <<>> /\ h_report = "none" /\ h_exit = -1
QIdle == q_models = {} /\ q_pred = <<>> /\ q_i = 0 /\ q_summary = <<>> /\ q_pc = "idle"
SIdle == s_disk = <<>> /\ s_cache = <<>> /\ s_shown = <<>> /\ s_trained = {} /\ s_trains = 0
BIdle == b_obj = <<>> /\ b_disk = <<>> /\ b_run = 0 /\ b_ok = FALSE /\ b_last = <<>>
ZIdle == z_months = <<>> /\ z_season = <<>> /\ z_dry = <<>> /\ z_wet = <<>> /\ z_pc = "idle"
CIdle == c_caller = "idle" /\ c_crop = "" /\ c_stage = 0 /\ c_et0 = 0 /\ c_etc = <<>>

InitWeather == WInit /\ GIdle /\ FIdle /\ RIdle /\ LIdle /\ UIdle /\ DIdle /\ EIdle /\ AIdle /\ MIdle /\ PIdle /\ TIdle /\ KIdle /\ HIdle /\ QIdle /\ SIdle /\ BIdle /\ ZIdle /\ CIdle
NextWeather == TransformWeather
SpecWeather == InitWeather /\ [][NextWeather]_vars

InitGee == GInit /\ WIdle /\ FIdle /\ RIdle /\ LIdle /\ UIdle /\ DIdle /\ EIdle /\ AIdle /\ MIdle /\ PIdle /\ TIdle /\ KIdle /\ HIdle /\ QIdle /\ SIdle /\ BIdle /\ ZIdle /\ CIdle
NextGee == TransformGee \/ preprocess_data
SpecGee == InitGee /\ [][NextGee]_vars

InitFeat == FInit /\ WIdle /\ GIdle /\ RIdle /\ LIdle /\ UIdle /\ DIdle /\ EIdle /\ AIdle /\ MIdle /\ PIdle /\ TIdle /\ KIdle /\ HIdle /\ QIdle /\ SIdle /\ BIdle /\ ZIdle /\ CIdle
NextFeat == PrepareFeatures
SpecFeat == InitFeat /\ [][NextFeat]_vars

InitRain == RInit /\ WIdle /\ GIdle /\ FIdle /\ LIdle /\ UIdle /\ DIdle /\ EIdle /\ AIdle /\ MIdle /\ PIdle /\ TIdle /\ KIdle /\ HIdle /\ QIdle /\ SIdle /\ BIdle /\ ZIdle /\ CIdle
NextRain == predict_rainfall \/ predict_all_for_city \/ rainfall_page
SpecRain == InitRain /\ [][NextRain]_vars

InitLoad == LInit /\ WIdle /\ GIdle /\ FIdle /\ RIdle /\ UIdle /\ DIdle /\ EIdle /\ AIdle /\ MIdle /\ PIdle /\ TIdle /\ KIdle /\ HIdle /\ QIdle /\ SIdle /\ BIdle /\ ZIdle /\ CIdle
NextLoad == load_weather_data \/ load_fao_data \/ load_gee_data
SpecLoad == InitLoad /\ [][NextLoad]_vars

InitUnified == UInit /\ WIdle /\ GIdle /\ FIdle /\ RIdle /\ LIdle /\ DIdle /\ EIdle /\ AIdle /\ MIdle /\ PIdle /\ TIdle /\ KIdle /\ HIdle /\ QIdle /\ SIdle /\ BIdle /\ ZIdle /\ CIdle
NextUnified ==
    \/ create_tables \/ clear_tables \/ load_fao_weather_data
    \/ unified_load_gee_data \/ create_views \/ verify_data
    \/ main_summary \/ main_again
SpecUnified == InitUnified /\ [][NextUnified]_vars

InitDag == DInit /\ WIdle /\ GIdle /\ FIdle /\ RIdle /\ LIdle /\ UIdle /\ EIdle /\ AIdle /\ MIdle /\ PIdle /\ TIdle /\ KIdle /\ HIdle /\ QIdle /\ SIdle /\ BIdle /\ ZIdle /\ CIdle
NextDag ==
    \/ task_start \/ task_success \/ task_failure
    \/ task_upstream_failed \/ next_dag_run
SpecDag == InitDag /\ [][NextDag]_vars

InitExtractWeather == XWInit /\ XGIdle /\ WIdle /\ GIdle /\ FIdle /\ RIdle /\ LIdle /\ UIdle /\ DIdle /\ AIdle /\ MIdle /\ PIdle /\ TIdle /\ KIdle /\ HIdle /\ QIdle /\ SIdle /\ BIdle /\ ZIdle /\ CIdle
NextExtractWeather == extract_weather_begin \/ extract_city \/ write_weather
SpecExtractWeather == InitExtractWeather /\ [][NextExtractWeather]_vars

InitExtractGee == XGInit /\ XWIdle /\ WIdle /\ GIdle /\ FIdle /\ RIdle /\ LIdle /\ UIdle /\ DIdle /\ AIdle /\ MIdle /\ PIdle /\ TIdle /\ KIdle /\ HIdle /\ QIdle /\ SIdle /\ BIdle /\ ZIdle /\ CIdle
NextExtractGee == extract_gee_begin \/ extract_region \/ write_gee
SpecExtractGee == InitExtractGee /\ [][NextExtractGee]_vars

InitFao == AInit /\ WIdle /\ GIdle /\ FIdle /\ RIdle /\ LIdle /\ UIdle /\ DIdle /\ EIdle /\ MIdle /\ PIdle /\ TIdle /\ KIdle /\ HIdle /\ QIdle /\ SIdle /\ BIdle /\ ZIdle /\ CIdle
NextFao == transform_fao \/ script_transform_fao
SpecFao == InitFao /\ [][NextFao]_vars

InitTrain == MInit /\ WIdle /\ GIdle /\ FIdle /\ RIdle /\ LIdle /\ UIdle /\ DIdle /\ EIdle /\ AIdle /\ PIdle /\ TIdle /\ KIdle /\ HIdle /\ QIdle /\ SIdle /\ BIdle /\ ZIdle /\ CIdle
NextTrain == train
SpecTrain == InitTrain /\ [][NextTrain]_vars

InitPersist == PInit /\ WIdle /\ GIdle /\ FIdle /\ RIdle /\ LIdle /\ UIdle /\ DIdle /\ EIdle /\ AIdle /\ MIdle /\ TIdle /\ KIdle /\ HIdle /\ QIdle /\ SIdle /\ BIdle /\ ZIdle /\ CIdle
NextPersist == retrain \/ save_model \/ load_model
SpecPersist == InitPersist /\ [][NextPersist]_vars

InitTrainAll == TInit /\ WIdle /\ GIdle /\ FIdle /\ RIdle /\ LIdle /\ UIdle /\ DIdle /\ EIdle /\ AIdle /\ MIdle /\ PIdle /\ KIdle /\ HIdle /\ QIdle /\ SIdle /\ BIdle /\ ZIdle /\ CIdle
NextTrainAll == validate_data_availability \/ train_one_model \/ train_all_models_end
SpecTrainAll == InitTrainAll /\ [][NextTrainAll]_vars

InitRainTrain == KInit /\ WIdle /\ GIdle /\ FIdle /\ RIdle /\ LIdle /\ UIdle /\ DIdle /\ EIdle /\ AIdle /\ MIdle /\ PIdle /\ TIdle /\ HIdle /\ QIdle /\ SIdle /\ BIdle /\ ZIdle /\ CIdle
NextRainTrain ==
    rainfall_prepare_features \/ rainfall_get_target_variable \/ rainfall_train_model
SpecRainTrain == InitRainTrain /\ [][NextRainTrain]_vars

InitPipeline == HInit /\ WIdle /\ GIdle /\ FIdle /\ RIdle /\ LIdle /\ UIdle /\ DIdle /\ EIdle /\ AIdle /\ MIdle /\ PIdle /\ TIdle /\ KIdle /\ QIdle /\ SIdle /\ BIdle /\ ZIdle /\ CIdle
NextPipeline == check_prerequisites \/ pipeline_step \/ generate_pipeline_report
SpecPipeline == InitPipeline /\ [][NextPipeline]_vars

InitAuto == QInit /\ WIdle /\ GIdle /\ FIdle /\ RIdle /\ LIdle /\ UIdle /\ DIdle /\ EIdle /\ AIdle /\ MIdle /\ PIdle /\ TIdle /\ KIdle /\ HIdle /\ SIdle /\ BIdle /\ ZIdle /\ CIdle
NextAuto == predict_city_all_models \/ get_daily_predictions_all_cities
SpecAuto == InitAuto /\ [][NextAuto]_vars

InitDash == SInit /\ WIdle /\ GIdle /\ FIdle /\ RIdle /\ LIdle /\ UIdle /\ DIdle /\ EIdle /\ AIdle /\ MIdle /\ PIdle /\ TIdle /\ KIdle /\ HIdle /\ QIdle /\ BIdle /\ ZIdle /\ CIdle
NextDash == page_run \/ config_page_train \/ process_restart
SpecDash == InitDash /\ [][NextDash]_vars

InitLifecycle == BInit /\ WIdle /\ GIdle /\ FIdle /\ RIdle /\ LIdle /\ UIdle /\ DIdle /\ EIdle /\ AIdle /\ MIdle /\ PIdle /\ TIdle /\ KIdle /\ HIdle /\ QIdle /\ SIdle /\ ZIdle /\ CIdle
NextLifecycle == base_train \/ base_predict \/ base_save_model \/ base_load_model
SpecLifecycle == InitLifecycle /\ [][NextLifecycle]_vars

InitSeason == ZInit /\ WIdle /\ GIdle /\ FIdle /\ RIdle /\ LIdle /\ UIdle /\ DIdle /\ EIdle /\ AIdle /\ MIdle /\ PIdle /\ TIdle /\ KIdle /\ HIdle /\ QIdle /\ SIdle /\ BIdle /\ CIdle
NextSeason == transform_gee_season \/ drought_prepare_features \/ disease_prepare_features
SpecSeason == InitSeason /\ [][NextSeason]_vars

InitCrop == CInit /\ WIdle /\ GIdle /\ FIdle /\ RIdle /\ LIdle /\ UIdle /\ DIdle /\ EIdle /\ AIdle /\ MIdle /\ PIdle /\ TIdle /\ KIdle /\ HIdle /\ QIdle /\ SIdle /\ BIdle /\ ZIdle
NextCrop == irrigation_prepare_features \/ optimize_irrigation
SpecCrop == InitCrop /\ [][NextCrop]_vars

(***************************************************************************)
(* Claims about clean_weather_data.                                        *)
(***************************************************************************)
\* C1: after clean_weather_data every output row has humidity in [0,100] and
\* temperature in [-80,60]; an input row violating either bound is absent
\* from the output, and no output row is a clipped copy: every output row is
\* an input row with its values unchanged.
C1_RangeInvariant ==
    w_pc = "clean" =>
        /\ \A i \in 1..Len(w_out) :
              /\ w_out[i].humidite.k = "num" /\ w_out[i].temperature.k = "num"
              /\ 0 <= w_out[i].humidite.v /\ w_out[i].humidite.v <= 100
              /\ (-80) <= w_out[i].temperature.v /\ w_out[i].temperature.v <= 60
        /\ \A i \in 1..Len(w_out) : w_out[i] \in Range(w_raw)
        /\ \A j \in 1..Len(w_raw) :
              (\/ (w_raw[j].humidite.k = "num"
                     /\ (w_raw[j].humidite.v < 0 \/ w_raw[j].humidite.v > 100))
               \/ (w_raw[j].temperature.k = "num"
                     /\ (w_raw[j].temperature.v < -80 \/ w_raw[j].temperature.v > 60)))
              => w_raw[j] \notin Range(w_out)

\* C1 witness: a cleaned table that kept a row and dropped an out-of-range one.
C1_Witness ==
    /\ w_pc = "clean"
    /\ w_out # <<>>
    /\ \E j \in 1..Len(w_raw) :
          w_raw[j].humidite = Num(101) \/ w_raw[j].temperature = Num(61)

\* C8: after clean_weather_data no two output rows share the identity key
\* (city, record type, timestamp), also when the duplicates differ elsewhere.
C8_UniqueIdentityKey ==
    w_pc = "clean" =>
        \A i, j \in 1..Len(w_out) :
            i # j => WeatherKey(w_out[i]) # WeatherKey(w_out[j])

(***************************************************************************)
(* Claims about transform_gee_data.                                        *)
(***************************************************************************)
\* The (region, date) pairs of the raw rows whose date parses.
InputPairs == {RegionDate(GCoerceRow(g_raw[i])) : i \in 1..Len(g_raw)}
                 \ {<<r, NA>> : r \in Range(Regions)}

\* The pairs with a raw row that has a parsable date and numeric coordinates.
LocatedPairs ==
    {RegionDate(GCoerceRow(g_raw[i])) :
        i \in {j \in 1..Len(g_raw) : HasGroupKey(GCoerceRow(g_raw[j]))}}

RowsOfPair(df, p) == {i \in 1..Len(df) : RegionDate(df[i]) = p}

\* C2 as stated: after transform_gee_data every (region, date) pair present
\* in the input has exactly one row in the consolidated table.
C2_ExactlyOnePerInputPair ==
    g_pc = "transformed" =>
        \A p \in InputPairs : Cardinality(RowsOfPair(g_out, p)) = 1

\* C2 as amended: no (region, date) pair appears twice; a pair of the input
\* has exactly one row when one of its raw rows has a parsable date and
\* numeric latitude and longitude, and no row otherwise; the table holds no
\* pair the input lacks.
C2_AtMostOnePerPair ==
    g_pc = "transformed" =>
        /\ \A i, j \in 1..Len(g_out) :
              i # j => RegionDate(g_out[i]) # RegionDate(g_out[j])
        /\ \A p \in LocatedPairs : Cardinality(RowsOfPair(g_out, p)) = 1
        /\ \A p \in InputPairs \ LocatedPairs : RowsOfPair(g_out, p) = {}
        /\ \A i \in 1..Len(g_out) : RegionDate(g_out[i]) \in InputPairs

\* C2 witness: a pair with rows at two different coordinates, consolidated
\* into one row, next to a pair whose only row has no latitude.
C2_Witness ==
    /\ g_pc = "transformed"
    /\ \E i, j \in 1..Len(g_raw) :
          /\ RegionDate(g_raw[i]) = RegionDate(g_raw[j])
          /\ g_raw[i].latitude = Num(1400) /\ g_raw[j].latitude = Num(1500)
    /\ \E i \in 1..Len(g_raw) : g_raw[i].region = "Thies" /\ g_raw[i].latitude = NA
    /\ Len(g_out) = 1

\* C3: consolidation groups the rows by (region, date, latitude, longitude)
\* and yields one row per group; each value column of that row is the first
\* non-null value of the column among the group's rows in input order (null
\* when the group has none), so of two rows of a group that both carry a
\* temperature the first one's temperature is kept.
C3_FirstNonNullPerGroup ==
    g_pc = "transformed" =>
        LET in == GCoerce(g_raw)
            members(k) == {i \in 1..Len(in) : GroupKey(in[i]) = k}
            groups == {GroupKey(in[i]) : i \in {j \in 1..Len(in) : HasGroupKey(in[j])}}
        IN /\ \A k \in groups :
                Cardinality({n \in 1..Len(g_grouped) : GroupKey(g_grouped[n]) = k}) = 1
           /\ \A n \in 1..Len(g_grouped) :
                /\ GroupKey(g_grouped[n]) \in groups
                /\ \A c \in {"temperature_2m", "ssm"} :
                     LET m == members(GroupKey(g_grouped[n]))
                     IN /\ \A i \in m :
                              (~IsNA(in[i][c]) /\ \A j \in m : j < i => IsNA(in[j][c]))
                              => g_grouped[n][c] = in[i][c]
                        /\ (\A i \in m : IsNA(in[i][c])) => IsNA(g_grouped[n][c])

\* C3 witness: two rows of one group with different temperatures; the
\* consolidated row has the temperature of the first.
C3_Witness ==
    /\ g_pc = "transformed"
    /\ Len(g_raw) >= 2
    /\ GroupKey(g_raw[1]) = GroupKey(g_raw[2])
    /\ g_raw[1].temperature_2m = Num(30000)
    /\ g_raw[2].temperature_2m = Num(2500)
    /\ Len(g_grouped) = 1
    /\ g_grouped[1].temperature_2m = Num(30000)

(***************************************************************************)
(* Claims about inference.                                                 *)
(***************************************************************************)
\* The input key a feature is read from, "" when it has none.
SourceKey(name) ==
    CASE name = "temperature_2m" -> "temperature"
      [] name = "temp_night_celsius" -> "temp_min"
      [] name = "is_wet_season" -> "season"
      [] name = "crop_riz" -> "crop_type"
      [] OTHER -> ""

OrderedLikeF ==
    /\ Len(f_out) = Len(f_names)
    /\ \A i \in 1..Len(f_names) : f_out[i].name = f_names[i]

\* C4 as stated: the vector has length |F|, the columns are in the order of F,
\* and a feature whose input is absent defaults to 0.0.
C4_AbsentDefaultsToZero ==
    f_pc = "returned" =>
        /\ OrderedLikeF
        /\ \A i \in 1..Len(f_names) :
              SourceKey(f_names[i]) \notin DOMAIN f_input => f_out[i].value = 0

\* C4 as amended: the vector has length |F| and the columns are in the order
\* of F; a name that is no key of the all_features table is set to 0.0 with a
\* warning; a name of the table whose input key is absent takes that
\* feature's own default (temperature 25.0, night temperature: temperature
\* minus 8, season "Wet", crop "mil"), otherwise the value from the input.
C4_FeatureOrderContract ==
    f_pc = "returned" =>
        /\ OrderedLikeF
        /\ \A i \in 1..Len(f_names) :
              LET n == f_names[i]
                  v == f_out[i].value
                  has(k) == k \in DOMAIN f_input
                  temp == IF has("temperature") THEN f_input["temperature"] ELSE 250
              IN /\ n = "soil_ph" => v = 0 /\ n \in f_warn
                 /\ n # "soil_ph" => n \notin f_warn
                 /\ n = "precipitation_lag_1" => v = 0
                 /\ n = "temperature_2m" => v = temp
                 /\ n = "temp_night_celsius" =>
                        v = IF has("temp_min") THEN f_input["temp_min"] ELSE temp - 80
                 /\ n = "is_wet_season" =>
                        v = IF has("season") /\ f_input["season"] # "Wet" THEN 0 ELSE 1
                 /\ n = "crop_riz" => v = IF has("crop_type") THEN 1 ELSE 0

\* C4 witness: an empty input, a feature list with an unknown name between
\* two known ones.
C4_Witness ==
    /\ f_pc = "returned"
    /\ DOMAIN f_input = {}
    /\ f_names = <<"temperature_2m", "soil_ph", "is_wet_season">>
    /\ f_out[1].value = 250 /\ f_out[2].value = 0 /\ f_out[3].value = 1
    /\ f_warn = {"soil_ph"}

\* The category the specification documents for a prediction p (in tenths).
DocumentedCategory(p) ==
    CASE p < 10 -> "Pas de pluie"
      [] 10 <= p /\ p < 50 -> "Pluie légère"
      [] 50 <= p /\ p < 150 -> "Pluie modérée"
      [] p >= 150 -> "Pluie forte"

\* C5: predict_rainfall, _categorize_rainfall and the dashboard page each map
\* a prediction p to: p < 1 none, 1 <= p < 5 light, 5 <= p < 15 moderate,
\* p >= 15 heavy, hence to the same category.
C5_RainfallBuckets ==
    /\ r_model # "" => r_model = DocumentedCategory(r_p)
    /\ r_auto # "" => r_auto = DocumentedCategory(r_p)
    /\ r_page # "" => r_page = DocumentedCategory(r_p)
    /\ (r_model # "" /\ r_auto # "" /\ r_page # "")
          => (r_model = r_auto /\ r_auto = r_page)

\* C5 witness: a prediction of exactly 1.0 mm categorised by all three.
C5_Witness ==
    /\ r_p = 10
    /\ r_model = "Pluie légère" /\ r_auto = "Pluie légère" /\ r_page = "Pluie légère"

(***************************************************************************)
(* Claims about the scheduled loaders.                                     *)
(***************************************************************************)
\* C6: a scheduled loader clears its table before inserting, so after a
\* successful run the table holds exactly the rows of the file just loaded.
C6_FullRefresh ==
    ld_last.raised = "none" => db[ld_last.table] = ld_last.file

\* C9: when a database step of a scheduled loader fails, the transaction is
\* rolled back, the cursor and the connection that were opened are closed,
\* and the exception that reaches the caller is the original one.
C9_OriginalErrorReraised ==
    ld_last.fail \in {"connect", "cursor", "create", "insert", "commit"} =>
        /\ ld_last.raised = "psycopg2.Error"
        /\ ld_last.fail # "connect" => (ld_last.rolled_back /\ ld_last.conn_closed)
        /\ ld_last.fail \notin {"connect", "cursor"} => ld_last.cur_closed

Pipeline(t) ==
    CASE t \in {"extract_weather", "transform_weather", "load_weather"} -> "weather"
      [] t \in {"transform_fao", "load_fao"} -> "fao"
      [] OTHER -> "gee"

Stage(t) ==
    CASE t \in {"extract_weather", "extract_gee"} -> 1
      [] t \in {"transform_weather", "transform_fao", "transform_gee"} -> 2
      [] OTHER -> 3

Earlier(t) == {u \in Tasks : Pipeline(u) = Pipeline(t) /\ Stage(u) < Stage(t)}

Started(t) == dag_state[t] \in {"running", "up_for_retry", "success", "failed"}

\* C10: within each pipeline a task has started only when every earlier
\* stage of that pipeline has succeeded (extract, then transform, then
\* load); and the pipelines are independent: a task whose own earlier stages
\* have succeeded can run whatever the other pipelines' tasks are doing, and
\* a task is given up as upstream_failed only for a failure in its own
\* pipeline.
C10_OrderedAndIndependent ==
    \A t \in Tasks :
        /\ Started(t) => \A u \in Earlier(t) : dag_state[u] = "success"
        /\ (\A u \in Earlier(t) : dag_state[u] = "success") => Runnable(t)
        /\ dag_state[t] = "upstream_failed" =>
               \E u \in Earlier(t) : dag_state[u] \in {"failed", "upstream_failed"}

\* C10 witness: the weather pipeline has run to the end in order while the
\* FAO pipeline has failed and the GEE pipeline is still at its load.
C10_Witness ==
    /\ dag_state["load_weather"] = "success"
    /\ dag_state["transform_fao"] = "failed"
    /\ dag_state["load_fao"] = "upstream_failed"
    /\ dag_state["load_gee"] = "running"

(***************************************************************************)
(* Claims about the extractors.                                            *)
(***************************************************************************)
\* C11: a failure for one city, one region or one source of a region is
\* caught and logged, the extractor goes on, and the records obtained from
\* the other cities, regions and sources are written to the output file.
C11_ObtainedRecordsWritten ==
    /\ (xw_pc = "success") =>
           /\ xw_i = Len(xw_locs) + 1
           /\ xw_file = File(xw_all)
    /\ (xg_pc = "success" /\ xg_init = "ok") =>
           /\ xg_i = Len(ExtractRegions) + 1
           /\ \A r \in xg_got : xg_file.exists /\ r \in Range(xg_file.rows)

\* C12 as stated: nothing is retried; in one scheduled run the task and each
\* city in it are attempted at most once.
C12_NothingRetried ==
    xw_pc # "idle" =>
        /\ xw_try <= 1
        /\ \A i \in 1..Len(xw_locs) : xw_att[i] <= 1

\* C12 as amended: within one execution of the task each city is attempted
\* at most once, a failed city being skipped; a task whose callable raised is
\* executed again by Airflow, at most Retries more times.
C12_OncePerExecution ==
    xw_pc # "idle" =>
        /\ xw_try <= Retries + 1
        /\ \A i \in 1..Len(xw_locs) : xw_att[i] <= xw_try
        /\ xw_pc = "failed" => xw_try = Retries + 1

\* C12 witness: the write failed in the first execution, the task succeeded
\* in its second; a city that timed out was skipped, and asked again only by
\* the second execution.
C12_Witness ==
    /\ xw_pc = "success"
    /\ xw_try = 2
    /\ \E i \in 1..Len(xw_locs) : xw_att[i] = 2 /\ xw_locs[i].ville \in xw_log

\* C13: a configuration failure makes the stage fail by raising: a task
\* whose API key or coordinates file is missing, or whose Earth Engine
\* initialisation failed, never ends as a success.
C13_ConfigFailureRaises ==
    /\ (xg_pc # "idle" /\ xg_init = "fail") => xg_pc # "success"
    /\ (xw_pc # "idle" /\ (xw_cfg.api_key # "ok" \/ ~xw_cfg.coords_file)) =>
           xw_pc # "success"

(***************************************************************************)
(* Claims about the FAO transform.                                         *)
(***************************************************************************)
ValidFaoRow(r) == ToNumeric(r.value).k = "num" /\ IsWholeYear(ToNumeric(r.year))

ValueYear(df) == [i \in 1..Len(df) |-> <<df[i].value, df[i].year>>]

\* C14: after clean_fao_data every output row has a numeric value and an
\* integer year, and the output is the input without the rows whose value
\* is not numeric or whose year is not a valid integer, values and years
\* unaltered.
C14_InvalidRowsDropped ==
    a_pc # "call" =>
        /\ \A i \in 1..Len(a_out) :
              a_out[i].value.k = "num" /\ IsWholeYear(a_out[i].year)
        /\ ValueYear(a_out) = ValueYear(SelectSeq(a_raw, ValidFaoRow))

C16_FilledFromOwnRegion ==
    g_pc = "transformed" =>
        \A i \in 1..Len(g_sorted) : \A c \in Range(FeatureCols) :
            (IsNA(g_sorted[i][c]) /\ ~IsNA(g_filled[i][c])) =>
                \E j \in SameRegion(g_sorted, i) : ~IsNA(g_sorted[j][c])

\* C18: the scaler is fitted on the rows of the training split only.
C18_ScalerFitOnTrainOnly ==
    m_pc = "trained" => (m_fit = m_train /\ m_fit \cap m_test = {})

(***************************************************************************)
(* Claims about model artifacts.                                           *)
(***************************************************************************)
\* C17: the artifact files on disk come from one training run, and
\* load_model never puts an estimator of one run together with a scaler or
\* a feature list of another.
C17_ArtifactsFromOneRun ==
    /\ \A f, g \in Range(ArtifactFiles) :
          (p_disk[f] # 0 /\ p_disk[g] # 0) => p_disk[f] = p_disk[g]
    /\ \A f, g \in Range(ArtifactFiles) : p_loaded[f] = p_loaded[g]

(***************************************************************************)
(* Claims about the training of all models.                                *)
(***************************************************************************)
TrainingOver == t_pc \in {"exited", "returned"}

\* C19: training needs the satellite table only: when it is present, a
\* missing weather or FAO file aborts no model's training.
C19_SatelliteTableSuffices ==
    (TrainingOver /\ t_files.gee) =>
        \A m \in Range(ModelsToTrain) \ t_bad : t_results[m] = "success"

\* C20: an error in one model's training is recorded as that model's error
\* and aborts nothing else: no model is tried twice, the models are trained
\* in order, every model after a failed one is still trained, and the exit
\* code of the script is 0 exactly when every model trained successfully.
C20_ErrorsIsolated ==
    t_pc # "idle" =>
        /\ \A m \in Range(ModelsToTrain) : t_att[m] <= 1
        /\ \A k \in 1..Len(ModelsToTrain) :
              (t_results[ModelsToTrain[k]] # "none") <=> (t_pc # "start" /\ k < t_i)
        /\ \A m \in Range(ModelsToTrain) :
              /\ t_results[m] = "error" => (m \in t_bad \/ LoadDataRaises(t_files))
              /\ t_results[m] = "success" => m \notin t_bad
        /\ (t_pc \in {"exited", "returned"} /\ t_i > 1) =>
              \A m \in Range(ModelsToTrain) : t_results[m] # "none"
        /\ t_pc = "exited" =>
              /\ t_exit \in {0, 1}
              /\ t_exit = 0 <=> \A m \in Range(ModelsToTrain) : t_results[m] = "success"
        /\ t_pc # "exited" => t_exit = -1

\* C20 witness: the second model failed, the two after it were trained, and
\* the script exited with 1.
C20_Witness ==
    /\ t_pc = "exited"
    /\ t_results = [m \in Range(ModelsToTrain) |->
                       IF m = "drought" THEN "error" ELSE "success"]
    /\ t_exit = 1

(***************************************************************************)
(* Claims about failed loads and the report of the unified loader.         *)
(***************************************************************************)
\* C21: a load that fails part-way leaves none of its batch in the target
\* table.  clear_tables has emptied gee_senegal_agro_data before the load,
\* so after a failed load_gee_data of the unified loader the table must be
\* empty.
C21_FailedLoadLeavesNothing ==
    u_gee_ok = "failed" => u_db["gee_senegal_agro_data"] = <<>>

\* C24: the unified loader reports success only when the GEE load succeeded.
C24_SuccessNeedsGee ==
    u_report = "success" => u_gee_ok = "loaded"

(***************************************************************************)
(* Claims about the rainfall model's training table.                       *)
(***************************************************************************)
\* C22: the target of a training row (region, t) is the precipitation of the
\* same region at t + 1; a row without a next time step is not trained on.
C22_TargetIsNextStep ==
    k_pc = "trained" =>
        LET df == RainSort(k_gee)
        IN \A i \in k_mask :
              \E j \in 1..Len(df) :
                 /\ df[j].region = df[i].region
                 /\ df[j].date = df[i].date + 1
                 /\ k_y[i] = df[j].total_precipitation_sum

\* C23: the lag and rolling features of a row hold values taken from rows of
\* the same region only, also after the forward / backward fill.
C23_FeaturesFromOwnRegion ==
    \A i \in 1..Len(k_X) :
       /\ ~IsNA(k_X[i].precipitation_lag) =>
             k_X[i].precipitation_lag.from = k_X[i].region
       /\ ~IsNA(k_X[i].precipitation_roll) =>
             k_X[i].precipitation_roll.from = k_X[i].region

(***************************************************************************)
(* Claims about the GEE main pipeline.                                     *)
(***************************************************************************)
ExecutedInOrder ==
    /\ Len(h_results) <= Len(PipelineSteps)
    /\ \A i \in 1..Len(h_results) : h_results[i].step = PipelineSteps[i]

ExtractFailed == h_results # <<>> /\ ~h_results[1].success

LoopOver == h_pc \in {"report", "done"} /\ h_results # <<>>

ExitCodeByRule ==
    LET total == Len(h_results)
        good == Cardinality({i \in 1..total : h_results[i].success})
    IN /\ h_exit = 0 <=> good = total
       /\ h_exit = 1 <=> (good < total /\ 2 * good >= total)
       /\ h_exit = 2 <=> 2 * good < total

\* C25 as stated: steps in order, a failed extract stops the pipeline, other
\* failures do not, a report is always generated and the exit code follows
\* the share of successful steps.
C25_ReportAlwaysGenerated ==
    /\ ExecutedInOrder
    /\ ExtractFailed => Len(h_results) = 1
    /\ (LoopOver /\ ~ExtractFailed) => Len(h_results) = Len(PipelineSteps)
    /\ h_pc = "done" => (h_report = "written" /\ ExitCodeByRule)

\* C25, amended: the same once the prerequisites are satisfied and the report
\* file can be written; with unsatisfied prerequisites no step runs, no
\* report is generated and the exit code is 1, as it is when writing the
\* report raises.
C25_PipelineOnceStarted ==
    /\ ExecutedInOrder
    /\ ExtractFailed => Len(h_results) = 1
    /\ (LoopOver /\ ~ExtractFailed) => Len(h_results) = Len(PipelineSteps)
    /\ (h_pc = "done" /\ h_report = "written") =>
          (h_results # <<>> /\ ExitCodeByRule /\ (ExtractFailed => h_exit = 2))
    /\ (h_pc = "done" /\ h_report = "none") => (h_results = <<>> /\ h_exit = 1)
    /\ (h_pc = "done" /\ h_report = "error") => h_exit = 1

C25_Witness ==
    /\ h_pc = "done"
    /\ h_report = "written"
    /\ ExtractFailed
    /\ h_exit = 2

(***************************************************************************)
(* Claims about the automatic predictions.                                 *)
(***************************************************************************)
\* C26: predict_all_for_city returns for every city; a model whose prediction
\* raised gets a default result of lower confidence while the other models
\* are evaluated; a city whose data could not be read gets an error entry
\* and the next cities are processed: one entry per configured city.
C26_FailuresIsolated ==
    /\ \A i \in 1..Len(q_pred) :
          LET p == q_pred[i]
          IN /\ p.city = PredictCities[i]
             /\ p.error => \A m \in q_models : p.outcomes[m] = "not_run"
             /\ ~p.error =>
                   /\ DOMAIN p.results = q_models
                   /\ \A m \in q_models :
                         p.outcomes[m] = "raises" =>
                            /\ p.results[m].default
                            /\ p.results[m].confidence < Confidence(m, "predicted")
    /\ q_pc = "done" =>
          /\ Len(q_pred) = Len(PredictCities)
          /\ q_summary.total_cities = Len(PredictCities)

C26_Witness ==
    /\ q_pc = "done"
    /\ {"rainfall", "drought"} \subseteq q_models
    /\ q_pred[1].error
    /\ ~q_pred[2].error
    /\ q_pred[2].outcomes["rainfall"] = "raises"
    /\ q_pred[2].outcomes["drought"] = "predicted"

(***************************************************************************)
(* Claims about the dashboard's models.                                    *)
(***************************************************************************)
\* C27: after a model was trained and saved from the configuration page, the
\* re-run of the page shows it active and the process uses the artifact
\* just saved.
C27_TrainedModelBecomesActive ==
    \A m \in s_trained :
       /\ s_shown[m]
       /\ s_cache.models[m] = s_disk[m]

(***************************************************************************)
(* Claims about the life cycle of a BaseModel object.                      *)
(***************************************************************************)
\* C28: predict and save_model raise ValueError until a train or load_model
\* has returned normally; is_trained is true exactly from then on; while it
\* is true, model and feature_names are set; a load_model that finds a file
\* missing raises FileNotFoundError and changes no attribute.
C28_LifecycleInvariant ==
    /\ (b_last.op \in {"predict", "save_model"} /\ ~b_ok) =>
          b_last.raised = "ValueError"
    /\ (b_last.op \in {"predict", "save_model"} /\ b_ok) =>
          b_last.raised # "ValueError"
    /\ b_obj.is_trained <=> b_ok
    /\ b_obj.is_trained => (b_obj.model # 0 /\ b_obj.feature_names # 0)
    /\ (b_last.op = "load_model" /\ b_last.raised = "FileNotFoundError") =>
          b_obj = b_last.before

C28_Witness ==
    /\ b_last.op = "load_model"
    /\ b_last.raised = "FileNotFoundError"
    /\ b_obj.is_trained
    /\ b_obj.model = 2

(***************************************************************************)
(* Claims about the season labels.                                         *)
(***************************************************************************)
\* C29: the labels the feature builders compare against are labels that
\* transform_gee_data writes: on a table that has rows in every month of the
\* year, is_dry_season is 1 for some row and is_wet_season is 1 for some row.
C29_SeasonFlagsReachable ==
    (z_pc = "features" /\ Len(z_months) = Cardinality(CalendarMonths)) =>
        /\ \E i \in 1..Len(z_dry) : z_dry[i] = 1
        /\ \E i \in 1..Len(z_wet) : z_wet[i] = 1

(***************************************************************************)
(* Claims about calculate_crop_et.                                         *)
(***************************************************************************)
KcMin(c) ==
    IF c.kc_initial <= c.kc_mid /\ c.kc_initial <= c.kc_end THEN c.kc_initial
    ELSE IF c.kc_mid <= c.kc_end THEN c.kc_mid ELSE c.kc_end

KcMax(c) ==
    IF c.kc_initial >= c.kc_mid /\ c.kc_initial >= c.kc_end THEN c.kc_initial
    ELSE IF c.kc_mid >= c.kc_end THEN c.kc_mid ELSE c.kc_end

\* C30: for every crop and stage >= 1 the crop coefficient lies between the
\* smallest and the largest of kc_initial, kc_mid, kc_end, the two
\* interpolations meet the neighbouring stage at the stage boundaries, and
\* ETc is not negative when ET0 is not.
C30_KcWithinBounds ==
    c_caller \in {"prepare_features", "optimize_irrigation"} =>
        LET c == CropData(c_crop)
            kc == KcScaled(c_crop, c_stage)
        IN /\ KcMin(c) * 2 * c.growing_days <= kc
           /\ kc <= KcMax(c) * 2 * c.growing_days
           /\ KcDevelopment(c, c.growing_days) = c.kc_initial * 2 * c.growing_days
           /\ KcFinal(c, 3 * c.growing_days) = c.kc_mid * 2 * c.growing_days
           /\ KcDevelopment(c, 3 * c.growing_days) = KcFinal(c, 3 * c.growing_days)
           /\ c_etc.num >= 0
====
